---- MODULE Spec2Model ----
(***************************************************************************)
(* State-machine model of the two MCP relay servers of this repository:    *)
(*   src/Proxmox/proxmox_server.py   (hypervisor relay, 24 tools)          *)
(*   src/Document/document_server.py (document relay, 4 tools)             *)
(*                                                                         *)
(* One invocation of a tool is modelled by the external calls it issues    *)
(* (filesystem, API client construction, API requests, SSH/SFTP), the      *)
(* outcome of each call (chosen by the environment) and the response the   *)
(* tool returns.  The guest operations (install software, execute command, *)
(* read file, write file) are modelled step by step; every other tool is   *)
(* one action.                                                             *)
(***************************************************************************)
EXTENDS Integers, Sequences, FiniteSets, TLC

VARIABLES
    cfg,          \* PROXMOX_URL / PROXMOX_USER / PROXMOX_PASSWORD read at import time
    secret_file,  \* content of /run/secrets/proxmox_password, "absent" if no such file
    pc,           \* position of the running tool, "idle" when none runs
    tool,         \* name of the running (or last) tool, "none" before the first call
    args,         \* arguments of the running (or last) invocation
    calls,        \* external calls issued by the invocation, in order, with outcomes
    polls,        \* exec-status polls issued by the invocation
    last_status,  \* what the last exec-status poll gave
    failure,      \* where the guest-agent path of a guest operation raised, and what
    resp,         \* response returned to the caller
    crashed,      \* TRUE iff an exception left the registered tool callable
    others        \* invocations the server ran while this one was suspended

vars == <<cfg, secret_file, pc, tool, args, calls, polls, last_status, failure, resp, crashed, others>>

----------------------------------------------------------------------------
(* Argument values: the empty string, a whitespace-only string, a non-blank *)
(* string.                                                                  *)
Str == {"", " ", "x"}
Val == {"", "x"}

\* `not s.strip()`
Blank(s) == s \in {"", " "}
\* `not s`
Empty(s) == s = ""
\* `s.strip()` on the modelled values
Strip(s) == IF s = " " THEN "" ELSE s

(* Outcome of one external call: it returns, raises proxmoxer's            *)
(* ResourceException, or raises any other exception (connection error,     *)
(* authentication error, OSError, ...).                                    *)
Outcome == {"ok", "resource", "other"}

\* External calls.
Fs(what)       == [kind |-> "fs", m |-> "-", path |-> what]
Client         == [kind |-> "client", m |-> "-", path |-> "ProxmoxAPI"]
Api(m, path)   == [kind |-> "api", m |-> m, path |-> path]
Ssh(what)      == [kind |-> "ssh", m |-> "-", path |-> what]
Sock           == [kind |-> "socket", m |-> "-", path |-> "create_connection"]
Call(c, out)   == [c |-> c, out |-> out]

\* No exec-status request issued yet.
NoStatus == [none |-> ""]

\* The guest-agent path has not raised.
NoFailure == [at |-> "none", exc |-> "none"]

\* Responses: the marker the string starts with and the text that identifies it.
Resp(marker, msg) == [marker |-> marker, msg |-> msg]
NoResp == Resp("-", "-")
ERR  == "error"      \* the cross mark
WARN == "warning"    \* the warning sign
OK   == "success"    \* the tick emoji

\* What a tool function produces: calls issued, response returned, or the
\* exception that left the function body (exc # "none").
FR(cs, r, e) == [calls |-> cs, resp |-> r, exc |-> e]
Returns(cs, r) == FR(cs, r, "none")
Raises(cs, e)  == FR(cs, NoResp, e)

----------------------------------------------------------------------------
\* Variant of get_proxmox_client: the password read at import time is used,
\* whatever the secret file holds.
get_proxmox_client_startup_password(out) ==
    LET pre == <<Call(Fs("exists /run/secrets/proxmox_password"), "ok")>>
    IN  IF cfg.url = "" \/ cfg.user = "" \/ cfg.password = ""
        THEN [calls |-> pre, out |-> "other"]
        ELSE [calls |-> pre \o <<Call(Client, out)>>, out |-> out]

(* get_proxmox_client: looks for the secret file on every call, prefers its *)
(* content to the password read at import time, raises ValueError when a    *)
(* credential is missing, otherwise constructs the API client (which logs   *)
(* in).  `out` is the outcome of the construction.                          *)
get_proxmox_client(out) ==
    LET exists   == secret_file # "absent"
        password == IF exists THEN Strip(secret_file) ELSE cfg.password
        pre      == <<Call(Fs("exists /run/secrets/proxmox_password"), "ok")>>
                    \o (IF exists THEN <<Call(Fs("read /run/secrets/proxmox_password"), "ok")>>
                                  ELSE <<>>)
    IN  IF cfg.url = "" \/ cfg.user = "" \/ password = ""
        THEN [calls |-> pre, out |-> "other"]
        ELSE [calls |-> pre \o <<Call(Client, out)>>, out |-> out]

(* A `try:` block that obtains the client and then issues `steps` in order: *)
(* the calls issued up to and including the first one that raises, and the  *)
(* outcome ("ok" when none raised).  outs[1] is the client's outcome.       *)
RECURSIVE RunSteps(_, _, _)
RunSteps(steps, outs, k) ==
    IF k > Len(steps) THEN [calls |-> <<>>, out |-> "ok"]
    ELSE IF outs[k + 1] # "ok"
         THEN [calls |-> <<Call(steps[k], outs[k + 1])>>, out |-> outs[k + 1]]
         ELSE LET rest == RunSteps(steps, outs, k + 1)
              IN  [calls |-> <<Call(steps[k], "ok")>> \o rest.calls, out |-> rest.out]

TryClientThen(steps, outs) ==
    LET c == get_proxmox_client(IF outs[1] = "ok" THEN "ok" ELSE "other")
    IN  IF c.out # "ok" THEN c
        ELSE LET r == RunSteps(steps, outs, 1)
             IN  [calls |-> c.calls \o r.calls, out |-> r.out]

----------------------------------------------------------------------------
\* Variant of log_activity: the wrapper without its `except Exception`.
log_activity_absent(r) == r

\* Variant of log_activity: the crash response without the error marker.
log_activity_plain(r) ==
    IF r.exc = "none" THEN r
    ELSE Returns(r.calls, Resp("none", "Internal Server Error"))

(* The log_activity decorator: a result is passed through; any exception of *)
(* the wrapped function becomes the "Internal Server Error" response.       *)
log_activity(r) ==
    IF r.exc = "none" THEN r
    ELSE Returns(r.calls, Resp(ERR, "Internal Server Error"))

----------------------------------------------------------------------------
(* Outcomes the environment chooses for the calls of one invocation.        *)
(* Outs(n): any outcome for each of n calls.  SeqOuts(n): at most one call  *)
(* raises; enough for a tool whose first raising call is its last call.     *)
Outs(n)    == [1..n -> Outcome]
SeqOuts(n) == {[i \in 1..n |-> IF i = f THEN k ELSE "ok"] :
                  f \in 0..n, k \in {"resource", "other"}}

(* The shape shared by most tools: reject missing arguments, then one try   *)
(* block with the client and `steps`, any exception giving `errR`.          *)
Simple(invalid, errV, steps, outs, okR, errR) ==
    IF invalid THEN Returns(<<>>, errV)
    ELSE LET t == TryClientThen(steps, outs)
         IN  Returns(t.calls, IF t.out = "ok" THEN okR ELSE errR)

\* Variant of QemuThenLxc: the lxc request follows the qemu request whatever
\* the qemu request gave.
QemuThenLxc_always_lxc(invalid, errV, qemu, lxc, outs, okQ, okL, errInner, errOuter) ==
    IF invalid THEN Returns(<<>>, errV)
    ELSE LET c == get_proxmox_client(IF outs[1] = "ok" THEN "ok" ELSE "other")
         IN  IF c.out # "ok" THEN Returns(c.calls, errOuter)
             ELSE Returns(c.calls \o <<Call(qemu, outs[2]), Call(lxc, outs[3])>>,
                          IF outs[2] = "ok" THEN okQ
                          ELSE IF outs[3] = "ok" THEN okL ELSE errInner)

(* The shape of control/delete/migrate/get_vm_config: the qemu endpoint     *)
(* first, the lxc endpoint when the qemu request raised.                    *)
\* outs[1] client, outs[2] qemu request, outs[3] lxc request
QemuThenLxc(invalid, errV, qemu, lxc, outs, okQ, okL, errInner, errOuter) ==
    IF invalid THEN Returns(<<>>, errV)
    ELSE LET c == get_proxmox_client(IF outs[1] = "ok" THEN "ok" ELSE "other")
         IN  IF c.out # "ok" THEN Returns(c.calls, errOuter)
             ELSE IF outs[2] = "ok" THEN Returns(c.calls \o <<Call(qemu, "ok")>>, okQ)
             ELSE IF outs[3] = "ok"
                  THEN Returns(c.calls \o <<Call(qemu, outs[2]), Call(lxc, "ok")>>, okL)
                  ELSE Returns(c.calls \o <<Call(qemu, outs[2]), Call(lxc, outs[3])>>, errInner)

----------------------------------------------------------------------------
(* The one-action tools of the hypervisor relay.  `a` holds the arguments,  *)
(* `outs` the outcomes of the calls, in the order the code issues them.     *)

\* outs[1] socket, outs[2] client, outs[3] nodes.get
proxmox_list_nodes(a, outs) ==
    IF outs[1] # "ok" THEN Returns(<<Call(Sock, outs[1])>>, Resp(ERR, "Network Error"))
    ELSE LET t == TryClientThen(<<Api("GET", "nodes")>>, Tail(outs))
         IN  Returns(<<Call(Sock, "ok")>> \o t.calls,
                     IF t.out = "ok" THEN Resp("chart", "Proxmox Nodes") ELSE Resp(ERR, "Error"))

\* Variant of proxmox_list_vms: `if not node` in place of `if not node.strip()`.
proxmox_list_vms_unstripped(a, outs) ==
    Simple(Empty(a.node), Resp(ERR, "Node name is required"),
           <<Api("GET", "qemu"), Api("GET", "lxc")>>, outs,
           IF a.listing = "empty" THEN Resp(WARN, "No VMs or Containers found")
                                  ELSE Resp("chart", "VMs on node"),
           Resp(ERR, "Error"))

\* a.listing: what the two listings hold together, "empty" or "some"
proxmox_list_vms(a, outs) ==
    Simple(Blank(a.node), Resp(ERR, "Node name is required"),
           <<Api("GET", "qemu"), Api("GET", "lxc")>>, outs,
           IF a.listing = "empty" THEN Resp(WARN, "No VMs or Containers found")
                                  ELSE Resp("chart", "VMs on node"),
           Resp(ERR, "Error"))

proxmox_control_vm(a, outs) ==
    QemuThenLxc(Blank(a.node) \/ Blank(a.vmid) \/ a.action \notin {"start", "stop"},
                Resp(ERR, "Node, VMID, and action are required"),
                Api("POST", "qemu/status/" \o a.action), Api("POST", "lxc/status/" \o a.action),
                outs, Resp("zap", "Signal sent VM"), Resp("zap", "Signal sent LXC"),
                Resp(ERR, "Error starting/stopping"), Resp(ERR, "Error"))

proxmox_delete_vm(a, outs) ==
    QemuThenLxc(Blank(a.node) \/ Blank(a.vmid), Resp(ERR, "Node and VMID are required"),
                Api("DELETE", "qemu"), Api("DELETE", "lxc"),
                outs, Resp("bin", "VM deleted"), Resp("bin", "LXC deleted"),
                Resp(ERR, "Error deleting"), Resp(ERR, "Error"))

proxmox_migrate_vm(a, outs) ==
    QemuThenLxc(Blank(a.node) \/ Blank(a.vmid) \/ Blank(a.target_node),
                Resp(ERR, "Source Node, VMID, and Target Node are required"),
                Api("POST", "qemu/migrate"), Api("POST", "lxc/migrate"),
                outs, Resp("rocket", "Migration started VM"), Resp("rocket", "Migration started LXC"),
                Resp(ERR, "Error migrating"), Resp(ERR, "Error"))

proxmox_get_vm_config(a, outs) ==
    QemuThenLxc(Blank(a.node) \/ Blank(a.vmid), Resp(ERR, "Node and VMID are required"),
                Api("GET", "qemu/config"), Api("GET", "lxc/config"),
                outs, Resp("gear", "Configuration for VM"), Resp("gear", "Configuration for LXC"),
                Resp(ERR, "Error getting config for"), Resp(ERR, "Error getting config"))

\* Variant of proxmox_update_vm: the VM is started whatever its status was.
proxmox_update_vm_always_start(a, outs) ==
    IF Blank(a.node) \/ Blank(a.vmid) THEN Returns(<<>>, Resp(ERR, "Node and VMID are required"))
    ELSE IF a.cores <= 0 /\ a.memory <= 0 THEN Returns(<<>>, Resp(WARN, "No changes requested"))
    ELSE LET c == get_proxmox_client(IF outs[1] = "ok" THEN "ok" ELSE "other")
             f == RunSteps(<<Api("GET", "qemu/config"), Api("GET", "qemu/status/current")>>, outs, 1)
             updates == (IF a.cores > 0 THEN {"cores"} ELSE {})
                        \cup (IF a.memory > 0 THEN {"memory"} ELSE {})
             post == [kind |-> "api", m |-> "POST", path |-> "qemu/config", keys |-> updates]
             boot == Api("POST", "qemu/status/start")
         IN  IF c.out # "ok" THEN Returns(c.calls, Resp(ERR, "Error"))
             ELSE IF f.out # "ok"
                  THEN Returns(c.calls \o f.calls, Resp(ERR, "Could not fetch VM details"))
             ELSE IF updates = {}
                  THEN Returns(c.calls \o f.calls, Resp(WARN, "No effective changes to apply"))
             ELSE IF outs[4] # "ok"
                  THEN Returns(c.calls \o f.calls \o <<Call(post, outs[4])>>, Resp(ERR, "Error"))
             ELSE Returns(c.calls \o f.calls \o <<Call(post, "ok"), Call(boot, outs[5])>>,
                          Resp(OK, IF outs[5] = "ok" THEN "Updated" ELSE "Updated, restart failed"))

\* a.cores, a.memory: integers; a.status: the status the hypervisor reports
\* outs: client, config.get, status.current.get, config.post, reboot/start
proxmox_update_vm(a, outs) ==
    IF Blank(a.node) \/ Blank(a.vmid) THEN Returns(<<>>, Resp(ERR, "Node and VMID are required"))
    ELSE IF a.cores <= 0 /\ a.memory <= 0 THEN Returns(<<>>, Resp(WARN, "No changes requested"))
    ELSE LET c == get_proxmox_client(IF outs[1] = "ok" THEN "ok" ELSE "other")
             f == RunSteps(<<Api("GET", "qemu/config"), Api("GET", "qemu/status/current")>>, outs, 1)
             updates == (IF a.cores > 0 THEN {"cores"} ELSE {})
                        \cup (IF a.memory > 0 THEN {"memory"} ELSE {})
             post == [kind |-> "api", m |-> "POST", path |-> "qemu/config", keys |-> updates]
             boot == Api("POST", IF a.status = "running" THEN "qemu/status/reboot"
                                                         ELSE "qemu/status/start")
         IN  IF c.out # "ok" THEN Returns(c.calls, Resp(ERR, "Error"))
             ELSE IF f.out # "ok"
                  THEN Returns(c.calls \o f.calls, Resp(ERR, "Could not fetch VM details"))
             ELSE IF updates = {}
                  THEN Returns(c.calls \o f.calls, Resp(WARN, "No effective changes to apply"))
             ELSE IF outs[4] # "ok"
                  THEN Returns(c.calls \o f.calls \o <<Call(post, outs[4])>>, Resp(ERR, "Error"))
             ELSE Returns(c.calls \o f.calls \o <<Call(post, "ok"), Call(boot, outs[5])>>,
                          Resp(OK, IF outs[5] = "ok" THEN "Updated" ELSE "Updated, restart failed"))

\* outs[1] client, outs[2] the snapshot request; a.listing: "empty" or "some"
proxmox_manage_snapshot(a, outs) ==
    IF Blank(a.node) \/ Blank(a.vmid) \/ a.action \notin {"create", "list", "rollback", "delete"}
    THEN Returns(<<>>, Resp(ERR, "Node, VMID, and action are required"))
    ELSE LET c == get_proxmox_client(IF outs[1] = "ok" THEN "ok" ELSE "other")
             errR == Resp(ERR, "Error managing snapshot")
             req == CASE a.action = "create"   -> Api("POST", "qemu/snapshot")
                      [] a.action = "list"     -> Api("GET", "qemu/snapshot")
                      [] a.action = "rollback" -> Api("POST", "qemu/snapshot/rollback")
                      [] a.action = "delete"   -> Api("DELETE", "qemu/snapshot")
             okR == CASE a.action = "create"   -> Resp("camera", "Snapshot created")
                      [] a.action = "list"     -> IF a.listing = "empty"
                                                  THEN Resp("none", "No snapshots found")
                                                  ELSE Resp("camera", "Snapshots for VM")
                      [] a.action = "rollback" -> Resp("return", "rollback initiated")
                      [] a.action = "delete"   -> Resp("bin", "Snapshot deleted")
         IN  IF c.out # "ok" THEN Returns(c.calls, errR)
             ELSE IF a.action # "list" /\ Blank(a.name)
                  THEN Returns(c.calls, Resp(ERR, "Snapshot name is required"))
             ELSE Returns(c.calls \o <<Call(req, outs[2])>>, IF outs[2] = "ok" THEN okR ELSE errR)

\* Variant of proxmox_get_vm_stats: the status is requested with a POST.
proxmox_get_vm_stats_post(a, outs) ==
    Simple(Blank(a.node) \/ Blank(a.vmid), Resp(ERR, "Node and VMID are required"),
           <<Api("POST", "qemu/status/current")>>, outs,
           Resp("chart", "VM Stats"), Resp(ERR, "Error getting stats"))

proxmox_get_vm_stats(a, outs) ==
    Simple(Blank(a.node) \/ Blank(a.vmid), Resp(ERR, "Node and VMID are required"),
           <<Api("GET", "qemu/status/current")>>, outs,
           Resp("chart", "VM Stats"), Resp(ERR, "Error getting stats"))

proxmox_list_storage(a, outs) ==
    Simple(Blank(a.node), Resp(ERR, "Node is required"),
           <<Api("GET", "storage")>>, outs,
           Resp("disk", "Storage on node"), Resp(ERR, "Error listing storage"))

proxmox_list_content(a, outs) ==
    Simple(Blank(a.node) \/ Blank(a.storage), Resp(ERR, "Node and Storage are required"),
           <<Api("GET", "storage/content")>>, outs,
           Resp("box", "Content on storage"), Resp(ERR, "Error listing content"))

\* outs[1] client, outs[2] the backup request, outs[3] the request after get_next_vmid
proxmox_manage_backup(a, outs) ==
    IF Blank(a.node) \/ a.action \notin {"create", "list", "restore"}
    THEN Returns(<<>>, Resp(ERR, "Node and action are required"))
    ELSE LET c == get_proxmox_client(IF outs[1] = "ok" THEN "ok" ELSE "other")
             errR == Resp(ERR, "Error managing backup")
             one(req, okR) == Returns(c.calls \o <<Call(req, outs[2])>>,
                                      IF outs[2] = "ok" THEN okR ELSE errR)
             nextid == Api("GET", "cluster/resources")
             restore == Api("POST", "qmrestore")
         IN  IF c.out # "ok" THEN Returns(c.calls, errR)
             ELSE CASE a.action = "create" ->
                        IF Blank(a.vmid) THEN Returns(c.calls, Resp(ERR, "VMID is required"))
                        ELSE one(Api("POST", "vzdump"), Resp(OK, "Backup started"))
                    [] a.action = "list" ->
                        IF Blank(a.storage) THEN Returns(c.calls, Resp(ERR, "Storage is required"))
                        ELSE one(Api("GET", "storage/content"), Resp("box", "Backups on storage"))
                    [] a.action = "restore" ->
                        IF Blank(a.backup_file)
                        THEN Returns(c.calls, Resp(ERR, "Backup file is required"))
                        ELSE IF ~Blank(a.vmid) THEN one(restore, Resp(OK, "Restore started"))
                        ELSE IF outs[2] # "ok"
                             THEN Returns(c.calls \o <<Call(nextid, outs[2])>>, errR)
                             ELSE Returns(c.calls \o <<Call(nextid, "ok"), Call(restore, outs[3])>>,
                                          IF outs[3] = "ok" THEN Resp(OK, "Restore started")
                                                            ELSE errR)

\* outs: client, [cluster/resources when vmid is empty,] lxc.post
proxmox_create_lxc(a, outs) ==
    Simple(Blank(a.node) \/ Blank(a.hostname) \/ Blank(a.ostemplate),
           Resp(ERR, "Node, Hostname, and OS Template are required"),
           (IF Empty(a.vmid) THEN <<Api("GET", "cluster/resources")>> ELSE <<>>)
               \o <<Api("POST", "lxc")>>, outs,
           Resp(OK, "LXC created"), Resp(ERR, "Error creating LXC"))

proxmox_add_firewall_rule(a, outs) ==
    Simple(Blank(a.node) \/ Blank(a.vmid), Resp(ERR, "Node and VMID are required"),
           <<Api("POST", "qemu/firewall/rules")>>, outs,
           Resp("shield", "Firewall rule added"), Resp(ERR, "Error adding firewall rule"))

proxmox_list_firewall_rules(a, outs) ==
    Simple(Blank(a.node) \/ Blank(a.vmid), Resp(ERR, "Node and VMID are required"),
           <<Api("GET", "qemu/firewall/rules")>>, outs,
           Resp("shield", "Firewall Rules for VM"), Resp(ERR, "Error listing rules"))

proxmox_set_firewall(a, outs) ==
    Simple(Blank(a.node) \/ Blank(a.vmid), Resp(ERR, "Node and VMID are required"),
           <<Api("POST", "qemu/config")>>, outs,
           IF a.enable THEN Resp("shield", "Firewall enabled") ELSE Resp("noentry", "Firewall disabled"),
           Resp(ERR, "Error enabling/disabling firewall"))

proxmox_test_connection(a, outs) ==
    Simple(FALSE, NoResp, <<Api("GET", "version")>>, outs,
           Resp(OK, "Connection successful"), Resp(ERR, "Connection failed"))

proxmox_get_task_status(a, outs) ==
    Simple(Blank(a.node) \/ Blank(a.upid), Resp(ERR, "Node and UPID are required"),
           <<Api("GET", "tasks/status"), Api("GET", "tasks/log")>>, outs,
           Resp("clipboard", "Task Status"), Resp(ERR, "Error getting task status"))

\* Not wrapped by log_activity; its messages carry no marker.
proxmox_get_server_specs(a, outs) ==
    Simple(Blank(a.node), Resp("none", "Error: Node name is required"),
           <<Api("GET", "version"), Api("GET", "nodes/status")>>, outs,
           Resp("none", "SERVER SPECIFICATIONS"), Resp("none", "Error getting server specifications"))

----------------------------------------------------------------------------
(* Step-by-step tools: moves shared by their actions.                       *)

\* The tool starts: arguments bound, nothing issued yet.
Start(t, a, to) ==
    /\ pc = "idle"
    /\ pc' = to
    /\ tool' = t
    /\ args' = a
    /\ calls' = <<>>
    /\ polls' = 0
    /\ last_status' = NoStatus
    /\ failure' = NoFailure
    /\ resp' = NoResp
    /\ crashed' = FALSE
    /\ others' = <<>>
    /\ UNCHANGED <<cfg, secret_file>>

\* The tool issues the calls `cs` and goes on to `to`.
Goto(to, cs) ==
    /\ pc' = to
    /\ calls' = calls \o cs
    /\ UNCHANGED <<cfg, secret_file, tool, args, polls, last_status, failure, resp, crashed, others>>

\* The tool issues the calls `cs` and ends as `fr` says (fr.calls is unused).
Done(cs, fr) ==
    /\ pc' = "done"
    /\ calls' = calls \o cs
    /\ resp' = fr.resp
    /\ crashed' = (fr.exc # "none")
    /\ UNCHANGED <<cfg, secret_file, tool, args, polls, last_status, failure, others>>

\* A whole invocation of a one-action tool.
Finish(t, a, fr) ==
    /\ pc = "idle"
    /\ pc' = "done"
    /\ tool' = t
    /\ args' = a
    /\ calls' = fr.calls
    /\ polls' = 0
    /\ last_status' = NoStatus
    /\ failure' = NoFailure
    /\ resp' = fr.resp
    /\ crashed' = (fr.exc # "none")
    /\ others' = <<>>
    /\ UNCHANGED <<cfg, secret_file>>

----------------------------------------------------------------------------
(* proxmox_create_vm_from_template, step by step.  a.ip is the list of the  *)
(* dot-separated parts of the ip argument (<<>> for the empty string).      *)
IpSet == {<<>>, <<"10", "0">>, <<"10", "0", "0", "5">>}

CloneError == Resp(ERR, "Error cloning VM")
Created(note) == [marker |-> OK, msg |-> "VM created from template", resize |-> note]

create_vm_start ==
    /\ pc = "idle"
    /\ \E node \in Str, template_id \in Val, name \in Val, vmid \in Val, ip \in IpSet,
       cores \in {0, 2}, memory \in {0, 512}, disk_size \in {"", "64G"}, password \in Val :
        LET a == [node |-> node, template_id |-> template_id, name |-> name, vmid |-> vmid,
                  ip |-> ip, cores |-> cores, memory |-> memory, disk_size |-> disk_size,
                  password |-> password]
        IN  IF Blank(node) \/ Blank(template_id) \/ Blank(name)
            THEN Finish("proxmox_create_vm_from_template", a,
                        log_activity(Returns(<<>>, Resp(ERR, "Node, template ID, and Name are required"))))
            ELSE Start("proxmox_create_vm_from_template", a, "cv_client")

create_vm_client ==
    /\ pc = "cv_client"
    /\ \E out \in {"ok", "other"} :
        LET c == get_proxmox_client(out)
        IN  IF c.out # "ok" THEN Done(c.calls, log_activity(Returns(<<>>, CloneError)))
            ELSE Goto(IF Empty(args.vmid) THEN "cv_nextid" ELSE "cv_clone", c.calls)

\* get_next_vmid: one listing of the cluster resources
create_vm_nextid ==
    /\ pc = "cv_nextid"
    /\ \E out \in Outcome :
        LET c == <<Call(Api("GET", "cluster/resources"), out)>>
        IN  IF out # "ok" THEN Done(c, log_activity(Returns(<<>>, CloneError)))
            ELSE Goto("cv_clone", c)

\* the clone request, then the local computation of the config updates:
\* parts[2] of an ip with fewer than three parts raises IndexError
create_vm_clone ==
    /\ pc = "cv_clone"
    /\ \E out \in Outcome :
        LET c == <<Call(Api("POST", "qemu/clone"), out)>>
        IN  IF out # "ok" THEN Done(c, log_activity(Returns(<<>>, CloneError)))
            ELSE IF args.ip # <<>> /\ Len(args.ip) < 3
                 THEN Done(c, log_activity(Returns(<<>>, CloneError)))
            ELSE Goto("cv_config", c)

\* Variant of create_vm_config: the clone is deleted when the configuration fails.
create_vm_config_rollback ==
    /\ pc = "cv_config"
    /\ \E out \in Outcome :
        LET c == <<Call(Api("POST", "qemu/config"), out)>>
        IN  IF out # "ok"
            THEN Done(c \o <<Call(Api("DELETE", "qemu"), "ok")>>,
                      log_activity(Returns(<<>>, Resp(WARN, "VM created but configuration failed"))))
            ELSE IF Empty(args.disk_size)
                 THEN Done(c, log_activity(Returns(<<>>, Created("none"))))
            ELSE Goto("cv_getconfig", c)

create_vm_config ==
    /\ pc = "cv_config"
    /\ \E out \in Outcome :
        LET c == <<Call(Api("POST", "qemu/config"), out)>>
        IN  IF out # "ok"
            THEN Done(c, log_activity(Returns(<<>>, Resp(WARN, "VM created but configuration failed"))))
            ELSE IF Empty(args.disk_size)
                 THEN Done(c, log_activity(Returns(<<>>, Created("none"))))
            ELSE Goto("cv_getconfig", c)

\* the disk lookup in the VM's configuration
create_vm_getconfig ==
    /\ pc = "cv_getconfig"
    /\ \E out \in Outcome, found \in BOOLEAN :
        LET c == <<Call(Api("GET", "qemu/config"), out)>>
        IN  IF out # "ok" THEN Done(c, log_activity(Returns(<<>>, Created("failed"))))
            ELSE IF ~found THEN Done(c, log_activity(Returns(<<>>, Created("skipped"))))
            ELSE Goto("cv_resize", c)

\* Variant of create_vm_resize: a failed resize is not mentioned.
create_vm_resize_silent ==
    /\ pc = "cv_resize"
    /\ \E out \in Outcome :
        LET c == <<Call(Api("PUT", "qemu/resize"), out)>>
        IN  Done(c, log_activity(Returns(<<>>, Created("resized"))))

create_vm_resize ==
    /\ pc = "cv_resize"
    /\ \E out \in Outcome :
        LET c == <<Call(Api("PUT", "qemu/resize"), out)>>
        IN  Done(c, log_activity(Returns(<<>>, Created(IF out = "ok" THEN "resized" ELSE "failed"))))

----------------------------------------------------------------------------
(* The guest operations, step by step: proxmox_install_software,            *)
(* proxmox_execute_command, proxmox_read_file_vm, proxmox_write_file_vm.    *)
CommandOps == {"proxmox_install_software", "proxmox_execute_command"}
FileOps    == {"proxmox_read_file_vm", "proxmox_write_file_vm"}
GuestOps   == CommandOps \cup FileOps

\* `for _ in range(60)` in install, `for _ in range(30)` in execute
InstallRetries == 60
ExecuteRetries == 30
\* Variant of Retries: install polls as often as execute.
Retries_same(t) == ExecuteRetries

Retries(t) == IF t = "proxmox_install_software" THEN InstallRetries ELSE ExecuteRetries

\* Values of the out-data field of an exec-status reply.
OutData == {"out1", "out2"}

SshArgs == [ip_address : Val, ssh_user : Val, ssh_password : Val, ssh_private_key : Val]

\* Variant of CredsIncomplete: the password/key check left out.
CredsIncomplete_no_auth_check(a) == Empty(a.ip_address) \/ Empty(a.ssh_user)

\* `not all([ip_address, ssh_user]) or not (ssh_password or ssh_private_key)`
CredsIncomplete(a) ==
    \/ Empty(a.ip_address) \/ Empty(a.ssh_user)
    \/ (Empty(a.ssh_password) /\ Empty(a.ssh_private_key))

\* The response of the fallback branch without usable credentials: one fixed
\* text that lists everything the SSH fallback needs.
NeedCreds ==
    [marker |-> ERR, msg |-> "QEMU Guest Agent not available",
     lists |-> {"ip_address", "ssh_user", "ssh_password or ssh_private_key"}]

(* Outcome of a guest-agent request: as Outcome, with the                   *)
(* ResourceException split in two: "unavailable" is the hypervisor's error  *)
(* for a guest agent that is not running, "resource" any other error reply. *)
AgentOutcome == Outcome \cup {"unavailable"}

\* An exception that leaves the function body reaches log_activity.
Uncaught(e) == log_activity(Raises(<<>>, e))

\* Variants of AgentExcept: `except Exception`, and a handler that checks for
\* the agent-not-running error only.
AgentExcept_catch_all(e) == "fallback"
AgentExcept_only_unavailable(e) == IF e = "unavailable" THEN "fallback" ELSE "propagate"

(* What the `except ResourceException` clause after the agent path does     *)
(* with an exception of kind e raised inside the try block: "fallback" or   *)
(* "propagate".                                                             *)
AgentExcept(e) == IF e \in {"resource", "unavailable"} THEN "fallback" ELSE "propagate"

\* The agent path raised e at step `at` after issuing cs.
AgentFailed(cs, at, e) ==
    /\ failure' = [at |-> at, exc |-> e]
    /\ IF AgentExcept(e) = "fallback"
       THEN /\ pc' = "g_fallback"
            /\ calls' = calls \o cs
            /\ UNCHANGED <<cfg, secret_file, tool, args, polls, last_status, resp, crashed, others>>
       ELSE LET fr == Uncaught(e)
            IN  /\ pc' = "done"
                /\ calls' = calls \o cs
                /\ resp' = fr.resp
                /\ crashed' = (fr.exc # "none")
                /\ UNCHANGED <<cfg, secret_file, tool, args, polls, last_status, others>>

GuestStart(t, third) ==
    /\ pc = "idle"
    /\ \E node \in Val, vmid \in Val, x \in Val, s \in SshArgs :
        LET a == [node |-> node, vmid |-> vmid, ip_address |-> s.ip_address,
                  ssh_user |-> s.ssh_user, ssh_password |-> s.ssh_password,
                  ssh_private_key |-> s.ssh_private_key] @@ (third :> x)
        IN  IF Empty(node) \/ Empty(vmid) \/ Empty(x)
            THEN Finish(t, a, log_activity(Returns(<<>>, Resp(ERR, "Node, VMID, and " \o third \o " are required"))))
            ELSE Start(t, a, "g_client")

proxmox_install_software_start == GuestStart("proxmox_install_software", "software")
proxmox_execute_command_start  == GuestStart("proxmox_execute_command", "command")
proxmox_read_file_vm_start     == GuestStart("proxmox_read_file_vm", "file_path")
proxmox_write_file_vm_start    == GuestStart("proxmox_write_file_vm", "file_path")

\* `proxmox = get_proxmox_client()`, before the try block
guest_client ==
    /\ pc = "g_client"
    /\ \E out \in {"ok", "other"} :
        LET c == get_proxmox_client(out)
        IN  IF c.out # "ok" THEN AgentFailed(c.calls, "client", c.out)
            ELSE Goto(IF tool \in CommandOps THEN "g_info" ELSE "g_file", c.calls)

\* `agent.get("info")`
agent_info ==
    /\ pc = "g_info"
    /\ \E out \in AgentOutcome :
        LET c == <<Call(Api("GET", "qemu/agent/info"), out)>>
        IN  IF out = "ok" THEN Goto("g_exec", c) ELSE AgentFailed(c, "info", out)

(* `agent.exec.post(command=cmd_list)` and the PID check.  Without a PID    *)
(* the code evaluates `raise ResourceException("...")` with one argument:   *)
(* that raises ResourceException where the class takes any arguments and    *)
(* TypeError where its constructor requires status_code, status_message and *)
(* content; the installed proxmoxer decides.                                *)
agent_exec ==
    /\ pc = "g_exec"
    /\ \/ \E out \in AgentOutcome :
            LET c == <<Call(Api("POST", "qemu/agent/exec"), out)>>
            IN  IF out = "ok" THEN Goto("g_poll", c) ELSE AgentFailed(c, "exec", out)
       \/ \E raised \in {"resource", "other"} :
            AgentFailed(<<[c |-> Api("POST", "qemu/agent/exec"), out |-> "ok", ret |-> "no pid"]>>,
                        "no pid", raised)

\* What an exec-status request gives.
StatusReplies ==
    {[exited |-> 0, exitcode |-> 0, out |-> "-"]}
    \cup [exited : {1}, exitcode : {0, 1}, out : OutData]

\* Variant of PollReturn: `if exitcode` in place of `if exitcode == 0`.
PollReturn_truthy(st) ==
    IF st.exitcode # 0
    THEN [marker |-> OK, msg |-> "executed successfully via Guest Agent", output |-> st.out]
    ELSE [marker |-> ERR, msg |-> "Agent command failed", output |-> st.out]

(* One iteration of the poll loop: the exec-status request, the reply, and  *)
(* time.sleep(2) when the command has not exited.  The requests of the loop *)
(* are counted in `polls` and the last reply kept in `last_status`; they follow  *)
(* the calls listed in `calls`.                                             *)
PollReturn(st) ==
    IF st.exitcode = 0
    THEN [marker |-> OK, msg |-> "executed successfully via Guest Agent", output |-> st.out]
    ELSE [marker |-> ERR, msg |-> "Agent command failed", output |-> st.out]

agent_poll ==
    /\ pc = "g_poll"
    /\ polls < Retries(tool)
    /\ polls' = polls + 1
    /\ \/ \E st \in StatusReplies :
            /\ last_status' = st
            /\ IF st.exited = 1
               THEN LET fr == log_activity(Returns(<<>>, PollReturn(st)))
                    IN  pc' = "done" /\ resp' = fr.resp /\ crashed' = (fr.exc # "none")
               ELSE pc' = "g_poll" /\ UNCHANGED <<resp, crashed>>
            /\ UNCHANGED failure
       \/ \E out \in AgentOutcome \ {"ok"} :
            /\ last_status' = [raised |-> out]
            /\ failure' = [at |-> "poll", exc |-> out]
            /\ IF AgentExcept(out) = "fallback"
               THEN pc' = "g_fallback" /\ UNCHANGED <<resp, crashed>>
               ELSE LET fr == Uncaught(out)
                    IN  pc' = "done" /\ resp' = fr.resp /\ crashed' = (fr.exc # "none")
    /\ UNCHANGED <<cfg, secret_file, tool, args, calls, others>>

\* Variant of agent_timeout: the command is killed before the timeout is reported.
agent_timeout_cancels ==
    /\ pc = "g_poll"
    /\ polls >= Retries(tool)
    /\ Done(<<Call(Api("POST", "qemu/agent/exec kill"), "ok")>>,
            log_activity(Returns(<<>>, Resp("hourglass", "Agent command started, but timed out"))))

\* The loop ran out: the timeout message, nothing else.
agent_timeout ==
    /\ pc = "g_poll"
    /\ polls >= Retries(tool)
    /\ Done(<<>>, log_activity(Returns(<<>>, Resp("hourglass", "Agent command started, but timed out"))))

(* The agent path of the file tools: one file-read or file-write request.   *)
(* A file-read reply whose content is not base64 makes b64decode raise.     *)
agent_file ==
    /\ pc = "g_file"
    /\ LET req == IF tool = "proxmox_read_file_vm" THEN Api("GET", "qemu/agent/file-read")
                                                   ELSE Api("POST", "qemu/agent/file-write")
           okR == IF tool = "proxmox_read_file_vm" THEN Resp("page", "File (via Agent)")
                                                   ELSE Resp(OK, "File written via Guest Agent")
       IN  \/ \E out \in AgentOutcome :
                IF out = "ok" THEN Done(<<Call(req, "ok")>>, log_activity(Returns(<<>>, okR)))
                ELSE AgentFailed(<<Call(req, out)>>, "file", out)
           \/ /\ tool = "proxmox_read_file_vm"
              /\ AgentFailed(<<[c |-> req, out |-> "ok", ret |-> "not base64"]>>, "decode", "other")

\* The fallback branch: the credential check.
guest_fallback ==
    /\ pc = "g_fallback"
    /\ IF CredsIncomplete(args) THEN Done(<<>>, log_activity(Returns(<<>>, NeedCreds)))
       ELSE Goto("g_ssh", <<>>)

----------------------------------------------------------------------------
(* The SSH/SFTP layer.                                                      *)
SshConnect(a) ==
    [kind |-> "ssh", m |-> "-", path |-> "connect",
     hostname |-> a.ip_address, username |-> a.ssh_user,
     password |-> a.ssh_password, pkey |-> a.ssh_private_key]

\* How an SSH command run can go; a key can fail to parse only when one is given.
SshRuns(a) ==
    {"connect fails", "exec fails", "exit 0", "exit 1"}
    \cup (IF Empty(a.ssh_private_key) THEN {} ELSE {"bad key"})

\* Variant of _execute_ssh_command: `client.close()` at the end of the try
\* block in place of the `finally`.
_execute_ssh_command_no_finally(a, run) ==
    LET new   == <<Call(Ssh("SSHClient"), "ok")>>
        close == <<Call(Ssh("close"), "ok")>>
        conn(o) == <<Call(SshConnect(a), o)>>
        exec(o) == <<Call(Ssh("exec_command"), o)>>
    IN  CASE run = "bad key"       -> [calls |-> new, exit_code |-> -1]
          [] run = "connect fails" -> [calls |-> new \o conn("other"), exit_code |-> -1]
          [] run = "exec fails"    -> [calls |-> new \o conn("ok") \o exec("other"),
                                       exit_code |-> -1]
          [] run = "exit 0"        -> [calls |-> new \o conn("ok") \o exec("ok") \o close,
                                       exit_code |-> 0]
          [] run = "exit 1"        -> [calls |-> new \o conn("ok") \o exec("ok") \o close,
                                       exit_code |-> 1]

(* _execute_ssh_command: the calls it issues and the exit code it returns   *)
(* (-1 for any exception); the client is closed in `finally`.               *)
_execute_ssh_command(a, run) ==
    LET new   == <<Call(Ssh("SSHClient"), "ok")>>
        close == <<Call(Ssh("close"), "ok")>>
        conn(o) == <<Call(SshConnect(a), o)>>
        exec(o) == <<Call(Ssh("exec_command"), o)>>
    IN  CASE run = "bad key"       -> [calls |-> new \o close, exit_code |-> -1]
          [] run = "connect fails" -> [calls |-> new \o conn("other") \o close, exit_code |-> -1]
          [] run = "exec fails"    -> [calls |-> new \o conn("ok") \o exec("other") \o close,
                                       exit_code |-> -1]
          [] run = "exit 0"        -> [calls |-> new \o conn("ok") \o exec("ok") \o close,
                                       exit_code |-> 0]
          [] run = "exit 1"        -> [calls |-> new \o conn("ok") \o exec("ok") \o close,
                                       exit_code |-> 1]

\* The SSH branch of install/execute: run the command, report by exit code.
ssh_command(a, run) ==
    LET r == _execute_ssh_command(a, run)
    IN  Returns(r.calls, IF r.exit_code = 0 THEN Resp(OK, "executed successfully via SSH")
                                            ELSE Resp(ERR, "SSH command failed"))

\* How an SFTP transfer can go.
SftpRuns(a) ==
    {"connect fails", "open_sftp fails", "file not found", "transfer fails", "transferred"}
    \cup (IF Empty(a.ssh_private_key) THEN {} ELSE {"bad key"})

(* The SSH branch of read_file/write_file: _connect_ssh, _get_pkey,         *)
(* connect, then _read_sftp_file / _write_sftp_file; client.close() in      *)
(* `finally`, sftp.close() in the helper's `finally` when sftp was opened.  *)
sftp_transfer(a, t, run) ==
    LET new   == <<Call(Ssh("SSHClient"), "ok")>>
        close == <<Call(Ssh("close"), "ok")>>
        conn(o) == <<Call(SshConnect(a), o)>>
        open(o) == <<Call(Ssh("open_sftp"), o)>>
        file(o) == <<Call(Ssh("sftp.open"), o)>>
        sclose  == <<Call(Ssh("sftp.close"), "ok")>>
        read  == t = "proxmox_read_file_vm"
        failed == Resp(ERR, "SSH/SFTP connection failed")
        sftpKo == Resp(ERR, IF read THEN "SFTP read failed" ELSE "SFTP write failed")
    IN  CASE run = "bad key"         -> Returns(new \o close, failed)
          [] run = "connect fails"   -> Returns(new \o conn("other") \o close, failed)
          [] run = "open_sftp fails" -> Returns(new \o conn("ok") \o open("other") \o close, sftpKo)
          [] run = "file not found"  ->
                Returns(new \o conn("ok") \o open("ok") \o file("other") \o sclose \o close,
                        IF read THEN Resp(ERR, "SFTP read failed: File not found") ELSE sftpKo)
          [] run = "transfer fails"  ->
                Returns(new \o conn("ok") \o open("ok") \o file("other") \o sclose \o close, sftpKo)
          [] run = "transferred"     ->
                Returns(new \o conn("ok") \o open("ok") \o file("ok") \o sclose \o close,
                        IF read THEN Resp("page", "File (via SFTP)")
                                ELSE Resp(OK, "File written via SFTP"))

\* The runs of an SFTP transfer that end before the transfer is handed to
\* the executor.
ConnectRuns == {"bad key", "connect fails"}

(* The SSH branch.  install/execute hand _execute_ssh_command to the        *)
(* executor and await it: the step is the executor's work and the return.   *)
(* read_file/write_file create the client, parse the key and connect in the *)
(* coroutine itself, and hand only the transfer to the executor.            *)
guest_ssh ==
    /\ pc = "g_ssh"
    /\ IF tool \in CommandOps
       THEN \E run \in SshRuns(args) :
                LET r == ssh_command(args, run) IN Done(r.calls, log_activity(r))
       ELSE \/ \E run \in SftpRuns(args) \cap ConnectRuns :
                LET r == sftp_transfer(args, tool, run) IN Done(r.calls, log_activity(r))
            \/ Goto("g_sftp", SubSeq(sftp_transfer(args, tool, "transferred").calls, 1, 2))

\* `await run_in_executor(None, _read_sftp_file / _write_sftp_file, ...)`:
\* the transfer, then `finally: client.close()` and the return.
guest_sftp ==
    /\ pc = "g_sftp"
    /\ \E run \in SftpRuns(args) \ ConnectRuns :
        LET r == sftp_transfer(args, tool, run)
        IN  Done(SubSeq(r.calls, 3, Len(r.calls)), log_activity(r))

\* Variant of Suspended: the poll loop sleeps with `await asyncio.sleep(2)`.
Suspended_async_sleep ==
    \/ pc = "g_ssh" /\ tool \in CommandOps
    \/ pc = "g_sftp"
    \/ pc = "g_poll"

(* The invocation is suspended at an `await` of an executor future: the     *)
(* event loop is free to run other handlers.  time.sleep in the poll loop   *)
(* and the blocking API requests do not release the event loop.             *)
Suspended ==
    \/ pc = "g_ssh" /\ tool \in CommandOps
    \/ pc = "g_sftp"

----------------------------------------------------------------------------
(* The document relay.  Its tools are not wrapped by log_activity: each has *)
(* one try block around everything after the argument check.  `o` gives the *)
(* outcome ("ok" or "other") of each library or filesystem call; a.exists   *)
(* tells whether the template file exists.                                  *)
DocOuts == [makedirs : {"ok", "other"}, load : {"ok", "other"},
            fill : {"ok", "other"}, save : {"ok", "other"}]

MkDirs(o)  == Call(Fs("makedirs /app/outputs"), o)
Exists     == Call(Fs("exists template"), "ok")
Load(o)    == Call(Fs("read template"), o)
Save(o)    == Call(Fs("write output"), o)
DocError   == Resp(ERR, "Error")

(* The part shared by word, excel and powerpoint: ensure_output_dir, then   *)
(* the template lookup and load.  `ret` is set when the tool ends here.     *)
OpenTemplate(a, o) ==
    IF o.makedirs # "ok" THEN [calls |-> <<MkDirs(o.makedirs)>>, ret |-> DocError]
    ELSE IF Blank(a.template) THEN [calls |-> <<MkDirs("ok")>>, ret |-> NoResp]
    ELSE IF ~a.exists
         THEN [calls |-> <<MkDirs("ok"), Exists>>, ret |-> Resp(ERR, "Template not found")]
    ELSE [calls |-> <<MkDirs("ok"), Exists, Load(o.load)>>,
          ret |-> IF o.load = "ok" THEN NoResp ELSE DocError]

\* The end shared by all four: save the document and report it.
SaveOutput(cs, o, what) ==
    Returns(cs \o <<Save(o.save)>>,
            IF o.save = "ok" THEN Resp(OK, what \o " document generated successfully")
                             ELSE DocError)

(* a.placeholders: "", " ", "{}" (an empty JSON object), "map" (a JSON      *)
(* object with entries) or "bad" (not JSON).  parse_content_to_paragraph is *)
(* defined nowhere in the module: calling it raises NameError.              *)
document_generate_word(a, o) ==
    IF Blank(a.content) /\ Blank(a.placeholders)
    THEN Returns(<<>>, Resp(ERR, "Content or placeholders are required"))
    ELSE LET t == OpenTemplate(a, o)
         IN  IF t.ret # NoResp THEN Returns(t.calls, t.ret)
             ELSE IF a.placeholders = "bad"
                  THEN Returns(t.calls, Resp(ERR, "Invalid JSON for placeholders"))
             ELSE IF a.placeholders = "map" /\ o.fill # "ok" THEN Returns(t.calls, DocError)
             ELSE IF ~Blank(a.content) THEN Returns(t.calls, DocError)
             ELSE SaveOutput(t.calls, o, "Word")

\* a.data: "", " ", "rows" (a JSON array), "object" (other JSON) or "bad"
document_generate_excel(a, o) ==
    IF Blank(a.data) THEN Returns(<<>>, Resp(ERR, "Data is required (JSON format)"))
    ELSE LET t == OpenTemplate(a, o)
         IN  IF t.ret # NoResp THEN Returns(t.calls, t.ret)
             ELSE IF a.data = "bad" THEN Returns(t.calls, Resp(ERR, "Invalid JSON data"))
             ELSE IF a.data = "object"
                  THEN Returns(t.calls, Resp(ERR, "Data must be a JSON array of arrays"))
             ELSE IF o.fill # "ok" THEN Returns(t.calls, DocError)
             ELSE SaveOutput(t.calls, o, "Excel")

\* Variant of document_generate_powerpoint: the presentation is saved before
\* the entries are looked at.
document_generate_powerpoint_saves_first(a, o) ==
    IF Blank(a.slides) THEN Returns(<<>>, Resp(ERR, "Slides data is required (JSON format)"))
    ELSE LET t == OpenTemplate(a, o)
         IN  IF t.ret # NoResp THEN Returns(t.calls, t.ret)
             ELSE IF a.slides = "bad" THEN Returns(t.calls, Resp(ERR, "Invalid JSON slides data"))
             ELSE IF a.slides = "object"
                  THEN Returns(t.calls, Resp(ERR, "Slides must be a JSON array of objects"))
             ELSE IF o.fill # "ok" THEN Returns(t.calls, DocError)
             ELSE IF a.slides = "mixed"
                  THEN Returns(t.calls \o <<Save(o.save)>>,
                               Resp(ERR, "Each slide must be a JSON object"))
             ELSE SaveOutput(t.calls, o, "PowerPoint")

\* a.slides: "", " ", "slides" (an array of objects), "mixed" (an array with
\* an entry that is no object), "object" (other JSON) or "bad"
document_generate_powerpoint(a, o) ==
    IF Blank(a.slides) THEN Returns(<<>>, Resp(ERR, "Slides data is required (JSON format)"))
    ELSE LET t == OpenTemplate(a, o)
         IN  IF t.ret # NoResp THEN Returns(t.calls, t.ret)
             ELSE IF a.slides = "bad" THEN Returns(t.calls, Resp(ERR, "Invalid JSON slides data"))
             ELSE IF a.slides = "object"
                  THEN Returns(t.calls, Resp(ERR, "Slides must be a JSON array of objects"))
             ELSE IF o.fill # "ok" THEN Returns(t.calls, DocError)
             ELSE IF a.slides = "mixed"
                  THEN Returns(t.calls, Resp(ERR, "Each slide must be a JSON object"))
             ELSE SaveOutput(t.calls, o, "PowerPoint")

\* the template argument is ignored; o.fill is the outcome of drawing the lines
document_generate_pdf(a, o) ==
    IF Blank(a.content) THEN Returns(<<>>, Resp(ERR, "Content is required"))
    ELSE IF o.makedirs # "ok" THEN Returns(<<MkDirs(o.makedirs)>>, DocError)
    ELSE IF o.fill # "ok" THEN Returns(<<MkDirs("ok")>>, DocError)
    ELSE SaveOutput(<<MkDirs("ok")>>, o, "PDF")

----------------------------------------------------------------------------
(* The actions of the one-action tools: the caller's arguments and the      *)
(* environment's outcomes are chosen, the tool runs to its return.          *)
Listing == {"empty", "some"}

Call_proxmox_list_nodes ==
    /\ pc = "idle"
    /\ \E outs \in SeqOuts(3) :
        Finish("proxmox_list_nodes", [none |-> ""], log_activity(proxmox_list_nodes([none |-> ""], outs)))

Call_proxmox_list_vms ==
    /\ pc = "idle"
    /\ \E node \in Str, l \in Listing, outs \in SeqOuts(3) :
        LET a == [node |-> node, listing |-> l]
        IN  Finish("proxmox_list_vms", a, log_activity(proxmox_list_vms(a, outs)))

Call_proxmox_control_vm ==
    /\ pc = "idle"
    /\ \E node \in Str, vmid \in Str, action \in {"", "start", "stop", "restart"}, outs \in Outs(3) :
        LET a == [node |-> node, vmid |-> vmid, action |-> action]
        IN  Finish("proxmox_control_vm", a, log_activity(proxmox_control_vm(a, outs)))

Call_proxmox_delete_vm ==
    /\ pc = "idle"
    /\ \E node \in Str, vmid \in Str, outs \in Outs(3) :
        LET a == [node |-> node, vmid |-> vmid]
        IN  Finish("proxmox_delete_vm", a, log_activity(proxmox_delete_vm(a, outs)))

Call_proxmox_migrate_vm ==
    /\ pc = "idle"
    /\ \E node \in Str, vmid \in Val, target_node \in Str, outs \in Outs(3) :
        LET a == [node |-> node, vmid |-> vmid, target_node |-> target_node]
        IN  Finish("proxmox_migrate_vm", a, log_activity(proxmox_migrate_vm(a, outs)))

Call_proxmox_get_vm_config ==
    /\ pc = "idle"
    /\ \E node \in Str, vmid \in Str, outs \in Outs(3) :
        LET a == [node |-> node, vmid |-> vmid]
        IN  Finish("proxmox_get_vm_config", a, log_activity(proxmox_get_vm_config(a, outs)))

Call_proxmox_update_vm ==
    /\ pc = "idle"
    /\ \E node \in Str, vmid \in Val, cores \in {-1, 0, 2}, memory \in {0, 512},
       status \in {"running", "stopped"}, outs \in SeqOuts(5) :
        LET a == [node |-> node, vmid |-> vmid, cores |-> cores, memory |-> memory,
                  status |-> status]
        IN  Finish("proxmox_update_vm", a, log_activity(proxmox_update_vm(a, outs)))

Call_proxmox_manage_snapshot ==
    /\ pc = "idle"
    /\ \E node \in Str, vmid \in Val, action \in {"", "create", "list", "rollback", "delete"},
       name \in Str, l \in Listing, outs \in SeqOuts(2) :
        LET a == [node |-> node, vmid |-> vmid, action |-> action, name |-> name, listing |-> l]
        IN  Finish("proxmox_manage_snapshot", a, log_activity(proxmox_manage_snapshot(a, outs)))

Call_proxmox_get_vm_stats ==
    /\ pc = "idle"
    /\ \E node \in Str, vmid \in Str, outs \in SeqOuts(2) :
        LET a == [node |-> node, vmid |-> vmid]
        IN  Finish("proxmox_get_vm_stats", a, log_activity(proxmox_get_vm_stats(a, outs)))

Call_proxmox_list_storage ==
    /\ pc = "idle"
    /\ \E node \in Str, outs \in SeqOuts(2) :
        LET a == [node |-> node]
        IN  Finish("proxmox_list_storage", a, log_activity(proxmox_list_storage(a, outs)))

Call_proxmox_list_content ==
    /\ pc = "idle"
    /\ \E node \in Str, storage \in Str, outs \in SeqOuts(2) :
        LET a == [node |-> node, storage |-> storage]
        IN  Finish("proxmox_list_content", a, log_activity(proxmox_list_content(a, outs)))

Call_proxmox_manage_backup ==
    /\ pc = "idle"
    /\ \E node \in Str, vmid \in Str, action \in {"", "create", "list", "restore"},
       storage \in Str, backup_file \in Str, outs \in SeqOuts(3) :
        LET a == [node |-> node, vmid |-> vmid, action |-> action, storage |-> storage,
                  backup_file |-> backup_file]
        IN  Finish("proxmox_manage_backup", a, log_activity(proxmox_manage_backup(a, outs)))

Call_proxmox_create_lxc ==
    /\ pc = "idle"
    /\ \E node \in Str, vmid \in Val, hostname \in Str, ostemplate \in Str, outs \in SeqOuts(3) :
        LET a == [node |-> node, vmid |-> vmid, hostname |-> hostname, ostemplate |-> ostemplate]
        IN  Finish("proxmox_create_lxc", a, log_activity(proxmox_create_lxc(a, outs)))

Call_proxmox_add_firewall_rule ==
    /\ pc = "idle"
    /\ \E node \in Str, vmid \in Str, outs \in SeqOuts(2) :
        LET a == [node |-> node, vmid |-> vmid]
        IN  Finish("proxmox_add_firewall_rule", a, log_activity(proxmox_add_firewall_rule(a, outs)))

Call_proxmox_list_firewall_rules ==
    /\ pc = "idle"
    /\ \E node \in Str, vmid \in Str, outs \in SeqOuts(2) :
        LET a == [node |-> node, vmid |-> vmid]
        IN  Finish("proxmox_list_firewall_rules", a,
                   log_activity(proxmox_list_firewall_rules(a, outs)))

Call_proxmox_set_firewall ==
    /\ pc = "idle"
    /\ \E node \in Str, vmid \in Str, enable \in BOOLEAN, outs \in SeqOuts(2) :
        LET a == [node |-> node, vmid |-> vmid, enable |-> enable]
        IN  Finish("proxmox_set_firewall", a, log_activity(proxmox_set_firewall(a, outs)))

Call_proxmox_test_connection ==
    /\ pc = "idle"
    /\ \E outs \in SeqOuts(2) :
        Finish("proxmox_test_connection", [none |-> ""],
               log_activity(proxmox_test_connection([none |-> ""], outs)))

Call_proxmox_get_task_status ==
    /\ pc = "idle"
    /\ \E node \in Str, upid \in Str, outs \in SeqOuts(3) :
        LET a == [node |-> node, upid |-> upid]
        IN  Finish("proxmox_get_task_status", a, log_activity(proxmox_get_task_status(a, outs)))

Call_proxmox_get_server_specs ==
    /\ pc = "idle"
    /\ \E node \in Str, outs \in SeqOuts(3) :
        LET a == [node |-> node]
        IN  Finish("proxmox_get_server_specs", a, proxmox_get_server_specs(a, outs))

Call_document_generate_word ==
    /\ pc = "idle"
    /\ \E content \in Str, placeholders \in {"", " ", "{}", "map", "bad"},
       template \in {"", "t.docx"}, exists \in BOOLEAN, o \in DocOuts :
        LET a == [content |-> content, placeholders |-> placeholders, template |-> template,
                  exists |-> exists]
        IN  Finish("document_generate_word", a, document_generate_word(a, o))

Call_document_generate_excel ==
    /\ pc = "idle"
    /\ \E data \in {"", " ", "rows", "object", "bad"},
       template \in {"", "t.xlsx"}, exists \in BOOLEAN, o \in DocOuts :
        LET a == [data |-> data, template |-> template, exists |-> exists]
        IN  Finish("document_generate_excel", a, document_generate_excel(a, o))

Call_document_generate_powerpoint ==
    /\ pc = "idle"
    /\ \E slides \in {"", " ", "slides", "mixed", "object", "bad"},
       template \in {"", "t.pptx"}, exists \in BOOLEAN, o \in DocOuts :
        LET a == [slides |-> slides, template |-> template, exists |-> exists]
        IN  Finish("document_generate_powerpoint", a, document_generate_powerpoint(a, o))

Call_document_generate_pdf ==
    /\ pc = "idle"
    /\ \E content \in Str, o \in DocOuts :
        LET a == [content |-> content]
        IN  Finish("document_generate_pdf", a, document_generate_pdf(a, o))

\* Requests the server may serve while one invocation is suspended.
MaxOthers == 1

(* While the invocation is suspended the server handles another request:    *)
(* a whole invocation of proxmox_list_vms, which never awaits.              *)
other_request ==
    /\ Suspended
    /\ Len(others) < MaxOthers
    /\ \E node \in Str, l \in Listing, outs \in SeqOuts(3) :
        LET fr == log_activity(proxmox_list_vms([node |-> node, listing |-> l], outs))
        IN  others' = Append(others, [tool |-> "proxmox_list_vms", calls |-> fr.calls,
                                      resp |-> fr.resp])
    /\ UNCHANGED <<cfg, secret_file, pc, tool, args, calls, polls, last_status, failure,
                   resp, crashed>>

----------------------------------------------------------------------------
(* The server between two requests: the response has been delivered and     *)
(* nothing of the invocation is kept.                                       *)
NextRequest ==
    /\ pc = "done"
    /\ pc' = "idle"
    /\ tool' = "none"
    /\ args' = [none |-> ""]
    /\ calls' = <<>>
    /\ polls' = 0
    /\ last_status' = NoStatus
    /\ failure' = NoFailure
    /\ resp' = NoResp
    /\ crashed' = FALSE
    /\ others' = <<>>
    /\ UNCHANGED <<cfg, secret_file>>

\* The environment mounts, rewrites or removes the secret file.
ChangeSecretFile ==
    /\ pc = "idle"
    /\ \E s \in {"absent", "", "x"} : s # secret_file /\ secret_file' = s
    /\ UNCHANGED <<cfg, pc, tool, args, calls, polls, last_status, failure, resp, crashed, others>>

\* Configurations the process can start with.
CfgSet == {[url |-> "x", user |-> "x", password |-> "x"],
           [url |-> "x", user |-> "x", password |-> ""],
           [url |-> "", user |-> "x", password |-> "x"]}

Init ==
    /\ cfg \in CfgSet
    /\ secret_file \in {"absent", "x"}
    /\ pc = "idle"
    /\ tool = "none"
    /\ args = [none |-> ""]
    /\ calls = <<>>
    /\ polls = 0
    /\ last_status = NoStatus
    /\ failure = NoFailure
    /\ resp = NoResp
    /\ crashed = FALSE
    /\ others = <<>>

OneAction ==
    \/ Call_proxmox_list_nodes
    \/ Call_proxmox_list_vms
    \/ Call_proxmox_control_vm
    \/ Call_proxmox_delete_vm
    \/ Call_proxmox_migrate_vm
    \/ Call_proxmox_get_vm_config
    \/ Call_proxmox_update_vm
    \/ Call_proxmox_manage_snapshot
    \/ Call_proxmox_get_vm_stats
    \/ Call_proxmox_list_storage
    \/ Call_proxmox_list_content
    \/ Call_proxmox_manage_backup
    \/ Call_proxmox_create_lxc
    \/ Call_proxmox_add_firewall_rule
    \/ Call_proxmox_list_firewall_rules
    \/ Call_proxmox_set_firewall
    \/ Call_proxmox_test_connection
    \/ Call_proxmox_get_task_status
    \/ Call_proxmox_get_server_specs
    \/ Call_document_generate_word
    \/ Call_document_generate_excel
    \/ Call_document_generate_powerpoint
    \/ Call_document_generate_pdf

CreateVm ==
    \/ create_vm_start
    \/ create_vm_client
    \/ create_vm_nextid
    \/ create_vm_clone
    \/ create_vm_config
    \/ create_vm_getconfig
    \/ create_vm_resize

Guest ==
    \/ proxmox_install_software_start
    \/ proxmox_execute_command_start
    \/ proxmox_read_file_vm_start
    \/ proxmox_write_file_vm_start
    \/ guest_client
    \/ agent_info
    \/ agent_exec
    \/ agent_poll
    \/ agent_timeout
    \/ agent_file
    \/ guest_fallback
    \/ guest_ssh
    \/ guest_sftp

Next ==
    \/ OneAction
    \/ CreateVm
    \/ Guest
    \/ NextRequest
    \/ ChangeSecretFile
    \/ other_request

\* The steps a running guest operation takes after it started.
GuestSteps ==
    \/ guest_client
    \/ agent_info
    \/ agent_exec
    \/ agent_poll
    \/ agent_timeout
    \/ agent_file
    \/ guest_fallback
    \/ guest_ssh
    \/ guest_sftp

(* The body of a tool runs sequentially: as long as each external call      *)
(* returns or raises, the next statement of a running guest operation is    *)
(* executed.                                                                *)
FairSpec == Init /\ [][Next]_vars /\ WF_vars(GuestSteps)

Spec == Init /\ [][Next]_vars

----------------------------------------------------------------------------
(* Vocabulary of the properties.                                            *)

\* The arguments a tool requires, given the action it is asked to perform.
RequiredArgs(t, a) ==
    CASE t \in {"proxmox_list_vms", "proxmox_list_storage", "proxmox_get_server_specs"} -> {"node"}
      [] t \in {"proxmox_delete_vm", "proxmox_update_vm", "proxmox_get_vm_stats",
                "proxmox_add_firewall_rule", "proxmox_list_firewall_rules",
                "proxmox_set_firewall", "proxmox_get_vm_config"} -> {"node", "vmid"}
      [] t = "proxmox_control_vm" -> {"node", "vmid", "action"}
      [] t = "proxmox_create_vm_from_template" -> {"node", "template_id", "name"}
      [] t = "proxmox_manage_snapshot" ->
            {"node", "vmid", "action"}
            \cup (IF a.action \in {"create", "rollback", "delete"} THEN {"name"} ELSE {})
      [] t = "proxmox_manage_backup" ->
            {"node", "action"}
            \cup (IF a.action = "create" THEN {"vmid"} ELSE {})
            \cup (IF a.action = "list" THEN {"storage"} ELSE {})
            \cup (IF a.action = "restore" THEN {"backup_file"} ELSE {})
      [] t = "proxmox_list_content" -> {"node", "storage"}
      [] t = "proxmox_install_software" -> {"node", "vmid", "software"}
      [] t = "proxmox_execute_command" -> {"node", "vmid", "command"}
      [] t \in FileOps -> {"node", "vmid", "file_path"}
      [] t = "proxmox_migrate_vm" -> {"node", "vmid", "target_node"}
      [] t = "proxmox_create_lxc" -> {"node", "hostname", "ostemplate"}
      [] t = "proxmox_get_task_status" -> {"node", "upid"}
      [] t = "document_generate_excel" -> {"data"}
      [] t = "document_generate_powerpoint" -> {"slides"}
      [] t = "document_generate_pdf" -> {"content"}
      [] OTHER -> {}

\* The invocation leaves a required argument empty (the word tool requires
\* content or placeholders).
MissingRequired(t, a) ==
    \/ \E f \in RequiredArgs(t, a) : a[f] = ""
    \/ t = "document_generate_word" /\ a.content = "" /\ a.placeholders = ""

\* The response is an error response (those of proxmox_get_server_specs
\* say "Error" without the marker).
IsError(r) ==
    \/ r.marker = ERR
    \/ r.msg \in {"Error: Node name is required", "Error getting server specifications"}

\* The invocation constructed the API client / touched the network or a file.
Issued(kind) == \E i \in DOMAIN calls : calls[i].c.kind = kind

----------------------------------------------------------------------------
(* C1: a tool invoked with a required argument empty returns an error       *)
(* response and attempts no external call before rejecting: no client       *)
(* construction, no API request, no SSH connection, no filesystem access.   *)
C1_MissingArgumentRejectedBeforeAnyCall ==
    (pc = "done" /\ MissingRequired(tool, args)) => (IsError(resp) /\ calls = <<>>)

(* C2: proxmox_list_vms with an empty or whitespace-only node returns the   *)
(* error string and issues nothing: no client, no qemu or lxc listing.      *)
C2_ListVmsBlankNodeIssuesNothing ==
    (tool = "proxmox_list_vms" /\ pc = "done" /\ args.node \in {"", " "})
        => (resp = Resp(ERR, "Node name is required") /\ calls = <<>>)

C2_Witness ==
    /\ tool = "proxmox_list_vms" /\ pc = "done" /\ args.node = " "
    /\ resp.marker = ERR /\ calls = <<>>

----------------------------------------------------------------------------
\* The fallback branch of a guest operation was taken.
FallbackTaken == resp = NeedCreds \/ Issued("ssh")
InternalError == Resp(ERR, "Internal Server Error")
ResourceKinds == {"resource", "unavailable"}

(* C3 as stated: the fallback branch is entered only when the agent call    *)
(* failed because the guest agent is unavailable.                           *)
C3_FallbackOnlyWhenAgentUnavailable ==
    pc = "g_fallback" => failure.exc = "unavailable"

(* C3 amended: the fallback branch is entered only when the agent path      *)
(* raised a ResourceException (agent unavailable or any other error reply   *)
(* of the hypervisor, at the info, exec, exec-status or file request, or    *)
(* the missing PID); an exception of any other type never enters it and     *)
(* ends the invocation with the Internal Server Error response.             *)
C3_FallbackOnlyOnResourceException ==
    tool \in GuestOps =>
        /\ (pc \in {"g_fallback", "g_ssh"} \/ FallbackTaken) => failure.exc \in ResourceKinds
        /\ failure.exc = "other" => (pc = "done" /\ resp = InternalError /\ ~Issued("ssh"))

C3_Witness ==
    /\ tool = "proxmox_execute_command" /\ pc = "g_fallback"
    /\ failure = [at |-> "poll", exc |-> "resource"] /\ polls = 3

----------------------------------------------------------------------------
(* C4 as stated: whenever the guest-agent path fails, whatever the failure, *)
(* the operation takes the fallback branch.                                 *)
C4_FallbackOnEveryFailure ==
    (tool \in GuestOps /\ pc = "done" /\ failure.exc # "none") => FallbackTaken

(* C4 amended: when the guest-agent path fails with a ResourceException the *)
(* operation takes the fallback branch (SSH when the credentials are        *)
(* complete, the request for credentials otherwise); when it fails with any *)
(* other exception, building the client included, it returns the Internal   *)
(* Server Error response without the fallback.                              *)
C4_FallbackOnEveryResourceException ==
    (tool \in GuestOps /\ pc = "done") =>
        /\ failure.exc \in ResourceKinds =>
              IF args.ip_address = "" \/ args.ssh_user = ""
                 \/ (args.ssh_password = "" /\ args.ssh_private_key = "")
              THEN resp = NeedCreds /\ ~Issued("ssh")
              ELSE Issued("ssh") /\ resp # NeedCreds
        /\ failure.exc = "other" => (resp = InternalError /\ ~FallbackTaken)

C4_Witness ==
    /\ tool = "proxmox_install_software" /\ pc = "done"
    /\ failure = [at |-> "exec", exc |-> "resource"]
    /\ Issued("ssh") /\ resp = Resp(OK, "executed successfully via SSH")

----------------------------------------------------------------------------
\* The SSH credentials the invocation did not supply.
MissingCreds(a) ==
    (IF a.ip_address = "" THEN {"ip_address"} ELSE {})
    \cup (IF a.ssh_user = "" THEN {"ssh_user"} ELSE {})
    \cup (IF a.ssh_password = "" /\ a.ssh_private_key = ""
          THEN {"ssh_password or ssh_private_key"} ELSE {})

Connects == {i \in DOMAIN calls : calls[i].c.kind = "ssh" /\ calls[i].c.path = "connect"}

(* C5 as stated: in the fallback branch, incomplete credentials give no SSH *)
(* connection and a response naming the missing ones; complete credentials  *)
(* give an SSH session opened with them.                                    *)
C5_FallbackReportsMissingOrConnects ==
    (tool \in GuestOps /\ pc = "done" /\ FallbackTaken) =>
        IF MissingCreds(args) # {}
        THEN ~Issued("ssh") /\ "lists" \in DOMAIN resp /\ resp.lists = MissingCreds(args)
        ELSE Connects # {}

(* C5 amended: with incomplete credentials no SSH call is made and the      *)
(* response is the fixed text listing all the fallback needs (ip_address,   *)
(* ssh_user, ssh_password or ssh_private_key), whichever are missing; with  *)
(* complete credentials an SSH client is created and a connection with the  *)
(* supplied credentials is attempted, unless a private key was supplied and *)
(* does not parse, in which case no connection is attempted.                *)
C5_FallbackAsksForAllOrConnects ==
    (tool \in GuestOps /\ pc = "done" /\ FallbackTaken) =>
        IF MissingCreds(args) # {}
        THEN /\ ~Issued("ssh")
             /\ resp = [marker |-> ERR, msg |-> "QEMU Guest Agent not available",
                        lists |-> {"ip_address", "ssh_user", "ssh_password or ssh_private_key"}]
        ELSE /\ \E i \in DOMAIN calls : calls[i].c = Ssh("SSHClient")
             /\ \A i \in Connects : calls[i].c = SshConnect(args)
             /\ args.ssh_private_key = "" => Connects # {}

C5_Witness ==
    /\ tool = "proxmox_read_file_vm" /\ pc = "done" /\ resp = NeedCreds
    /\ MissingCreds(args) = {"ip_address"}

----------------------------------------------------------------------------
Timeout == Resp("hourglass", "Agent command started, but timed out")

(* C6: in install/execute, when an exec-status poll (the N-th, N up to the  *)
(* retry cap) is the first to report exited with exit code 0, the operation *)
(* returns at that poll, after exactly N polls, the success response        *)
(* carrying the out-data of that reply; nothing goes over SSH.              *)
C6_PollSuccessReturnsOutput ==
    (/\ tool \in CommandOps
     /\ "exited" \in DOMAIN last_status
     /\ last_status.exited = 1 /\ last_status.exitcode = 0)
        => /\ pc = "done"
           /\ resp = [marker |-> OK, msg |-> "executed successfully via Guest Agent",
                      output |-> last_status.out]
           /\ polls >= 1
           /\ polls <= (IF tool = "proxmox_install_software" THEN InstallRetries
                                                             ELSE ExecuteRetries)
           /\ ~Issued("ssh")

C6_Witness ==
    /\ tool = "proxmox_execute_command" /\ pc = "done" /\ polls = ExecuteRetries - 1
    /\ last_status = [exited |-> 1, exitcode |-> 0, out |-> "out2"]
    /\ resp.marker = OK /\ resp.output = "out2"

(* C7: the timeout message is returned after exactly 30 polls by execute    *)
(* and exactly 60 by install, never after fewer; no poll is issued beyond   *)
(* the cap; and when the last poll of the cap still reports not exited the  *)
(* response is the timeout message.                                         *)
C7_TimeoutAfterExactlyTheCap ==
    tool \in CommandOps =>
        LET cap == IF tool = "proxmox_install_software" THEN InstallRetries ELSE ExecuteRetries
        IN  /\ polls <= cap
            /\ resp = Timeout => (polls = cap /\ pc = "done")
            /\ (pc = "done" /\ polls = cap /\ "exited" \in DOMAIN last_status
                /\ last_status.exited = 0) => resp = Timeout

C7_Witness ==
    /\ tool = "proxmox_install_software" /\ pc = "done" /\ resp = Timeout
    /\ polls = InstallRetries

(* C8: every started install/execute invocation eventually returns (each    *)
(* external call returning or raising), and when it returns the timeout     *)
(* message the last request before the polls was the exec request and the   *)
(* polls were the last requests: nothing cancels or stops the command.      *)
C8_CommandOpsReturnAndNeverCancel ==
    /\ (tool \in CommandOps /\ pc \notin {"idle", "done"}) ~> (pc = "done")
    /\ [](resp = Timeout =>
            /\ calls # <<>>
            /\ calls[Len(calls)] = Call(Api("POST", "qemu/agent/exec"), "ok")
            /\ \A i \in DOMAIN calls :
                  calls[i].c.kind = "api" =>
                      calls[i].c \in {Api("GET", "qemu/agent/info"), Api("POST", "qemu/agent/exec")})

C8_Witness ==
    /\ tool = "proxmox_execute_command" /\ pc = "done" /\ resp = Timeout
    /\ polls = ExecuteRetries

----------------------------------------------------------------------------
\* get_proxmox_client raised ValueError: the secret file was looked for and
\* no client was constructed.
CredError ==
    /\ \E i \in DOMAIN calls : calls[i].c = Fs("exists /run/secrets/proxmox_password")
    /\ ~Issued("client")

\* Some external call of the invocation raised.
Raised ==
    \/ \E i \in DOMAIN calls : calls[i].out # "ok"
    \/ failure.exc # "none"
    \/ CredError

\* The places where a tool goes on after an exception instead of reporting
\* an error: the lxc endpoint after the qemu endpoint, SSH after the agent,
\* the steps after the clone, the restart after the update.
Absorbed ==
    \/ /\ tool \in {"proxmox_control_vm", "proxmox_delete_vm", "proxmox_migrate_vm",
                    "proxmox_get_vm_config"}
       /\ Len(calls) >= 2
       /\ calls[Len(calls)].out = "ok" /\ calls[Len(calls) - 1].out # "ok"
    \/ /\ tool \in GuestOps
       /\ failure.exc \in ResourceKinds
       /\ Issued("ssh")
       /\ \A i \in DOMAIN calls : calls[i].c.kind = "ssh" => calls[i].out = "ok"
    \/ /\ tool = "proxmox_create_vm_from_template"
       /\ \E i \in DOMAIN calls : calls[i] = Call(Api("POST", "qemu/clone"), "ok")
    \/ /\ tool = "proxmox_update_vm"
       /\ \E i \in DOMAIN calls : calls[i].c.path = "qemu/config" /\ calls[i].c.m = "POST"
                                  /\ calls[i].out = "ok"

(* C9 as stated: wherever the API client, the document library or the SSH   *)
(* layer raises, the tool returns an error string, and no exception leaves  *)
(* a tool.                                                                  *)
C9_EveryExceptionBecomesAnErrorString ==
    (pc = "done" /\ Raised) => (IsError(resp) /\ ~crashed)

(* C9 amended: no exception ever leaves a tool, every invocation returns a  *)
(* string, and an exception gives an error string except where the tool     *)
(* goes on after it: the lxc request after a failed qemu request, the SSH   *)
(* fallback after a ResourceException of the agent path, the configuration  *)
(* and resize steps of create-VM (warning, or success with a note) and the  *)
(* restart of update-VM (success with a note).                              *)
C9_NoExceptionLeavesATool ==
    /\ ~crashed
    /\ pc = "done" =>
          /\ resp # NoResp
          /\ (Raised /\ ~IsError(resp)) => Absorbed

C9_Witness ==
    /\ tool = "proxmox_write_file_vm" /\ pc = "done"
    /\ cfg.password = "" /\ secret_file = "absent"
    /\ failure = [at |-> "client", exc |-> "other"]
    /\ resp = InternalError /\ ~crashed

----------------------------------------------------------------------------
(* C10: proxmox_create_vm_from_template never rolls back: once the clone    *)
(* request has succeeded, the only requests that follow are the config      *)
(* update, the config lookup and the resize, each at most once and in this  *)
(* order; no delete request is ever issued.                                 *)
AfterClone ==
    LET at == {i \in DOMAIN calls : calls[i] = Call(Api("POST", "qemu/clone"), "ok")}
    IN  IF at = {} THEN <<>>
        ELSE LET k == CHOOSE i \in at : TRUE
             IN  [j \in 1..(Len(calls) - k) |-> calls[k + j].c]

C10_CreateVmNeverRollsBack ==
    tool = "proxmox_create_vm_from_template" =>
        /\ \A i \in DOMAIN calls : calls[i].c.m # "DELETE"
        /\ LET steps == <<Api("POST", "qemu/config"), Api("GET", "qemu/config"),
                          Api("PUT", "qemu/resize")>>
           IN  /\ Len(AfterClone) <= 3
               /\ \A j \in DOMAIN AfterClone : AfterClone[j] = steps[j]

C10_Witness ==
    /\ tool = "proxmox_create_vm_from_template" /\ pc = "done"
    /\ resp = Resp(WARN, "VM created but configuration failed")
    /\ Len(AfterClone) = 1

----------------------------------------------------------------------------
\* The positions in `calls` of the requests `c` whose outcome is in `outs`.
At(c, outs) == {i \in DOMAIN calls : calls[i].c = c /\ calls[i].out \in outs}

Failures == Outcome \ {"ok"}

(* C11: proxmox_create_vm_from_template reports the step that failed.  A    *)
(* failed clone request ends the invocation with the clone error, nothing   *)
(* requested after it; a failed config update ends it with the              *)
(* configuration-failed response, nothing requested after it; a failed      *)
(* resize ends it with the response that notes the failed disk resize.  The *)
(* config update directly follows a successful clone request, and the       *)
(* resize is requested only after a successful config update.               *)
C11_CreateVmReportsTheFailedStep ==
    tool = "proxmox_create_vm_from_template" =>
        LET clone  == Api("POST", "qemu/clone")
            config == Api("POST", "qemu/config")
            resize == Api("PUT", "qemu/resize")
            last   == Len(calls)
        IN  /\ \A i \in At(clone, Failures) :
                    i = last /\ pc = "done" /\ resp = CloneError
            /\ \A i \in At(config, Failures) :
                    /\ i = last /\ pc = "done"
                    /\ resp = Resp(WARN, "VM created but configuration failed")
            /\ \A i \in At(resize, Failures) :
                    i = last /\ pc = "done" /\ resp = Created("failed")
            /\ \A i \in At(config, Outcome) : i > 1 /\ calls[i - 1] = Call(clone, "ok")
            /\ \A i \in At(resize, Outcome) :
                    \E j \in At(config, {"ok"}) : j < i
            /\ \A c \in {clone, config, resize} : Cardinality(At(c, Outcome)) <= 1

C11_Witness ==
    /\ tool = "proxmox_create_vm_from_template" /\ pc = "done"
    /\ At(Api("PUT", "qemu/resize"), Failures) # {}
    /\ resp = Created("failed")

(* C12: within one invocation of install/execute the command is submitted   *)
(* for execution in the guest at most once: an exec request of the agent    *)
(* that returned a PID and an SSH exec_command never both occur, and        *)
(* neither occurs twice.                                                    *)
C12_CommandSubmittedAtMostOnce ==
    tool \in CommandOps =>
        LET agent == {i \in At(Api("POST", "qemu/agent/exec"), {"ok"}) :
                          "ret" \notin DOMAIN calls[i]}
            ssh   == At(Ssh("exec_command"), Outcome)
        IN  Cardinality(agent) + Cardinality(ssh) <= 1

----------------------------------------------------------------------------
\* The invocation reached get_proxmox_client.
AskedForClient == At(Fs("exists /run/secrets/proxmox_password"), {"ok"}) # {}

ReadSecretFile == At(Fs("read /run/secrets/proxmox_password"), {"ok"}) # {}

(* C13 as stated: an invocation uses exactly the credentials loaded at      *)
(* process start: it reads no secret file, it constructs the client only    *)
(* with the password loaded at start, and it lacks credentials only when    *)
(* those loaded at start are incomplete.                                    *)
C13_CredentialsAreThoseLoadedAtStart ==
    (pc = "done" /\ AskedForClient) =>
        /\ ~ReadSecretFile
        /\ Issued("client") => cfg.password # ""
        /\ CredError => (cfg.url = "" \/ cfg.user = "" \/ cfg.password = "")

(* C13 amended: no tool operation writes the configuration or the secret    *)
(* file; the URL and the user of an invocation are those loaded at process  *)
(* start; the password is the stripped content of                           *)
(* /run/secrets/proxmox_password as it is when the invocation runs, if that *)
(* file exists, and the password loaded at start otherwise.                 *)
C13_PasswordIsReadAtEachInvocation ==
    /\ [][cfg' = cfg /\ (pc # "idle" => secret_file' = secret_file)]_vars
    /\ [](  (pc = "done" /\ AskedForClient) =>
              LET password == IF secret_file # "absent" THEN Strip(secret_file)
                                                         ELSE cfg.password
                  complete == cfg.url # "" /\ cfg.user # "" /\ password # ""
              IN  /\ ReadSecretFile <=> secret_file # "absent"
                  /\ Issued("client") <=> complete
                  /\ CredError <=> ~complete)

C13_Witness ==
    /\ pc = "done" /\ cfg.password = "" /\ secret_file = "x"
    /\ ReadSecretFile /\ Issued("client")

----------------------------------------------------------------------------
(* C14 as stated: while a tool operation is between its start and its       *)
(* return no other tool operation of the server executes.                   *)
C14_OneOperationAtATime == others = <<>>

(* C14 amended: a tool operation runs without any other operation           *)
(* interleaved, through its blocking API requests and through the poll loop *)
(* (time.sleep does not release the event loop), except while it awaits     *)
(* the SSH command or the SFTP transfer handed to the executor in the       *)
(* fallback path: only there, with the fallback taken on complete           *)
(* credentials (and, for the file tools, the SSH connection made), does the *)
(* server run other operations, and the suspended one takes no step then.   *)
C14_OthersRunOnlyDuringExecutorAwait ==
    /\ [](others # <<>> =>
            /\ tool \in GuestOps
            /\ failure.exc \in ResourceKinds
            /\ ~CredsIncomplete(args)
            /\ tool \in FileOps => At(SshConnect(args), {"ok"}) # {})
    /\ [][(others' # others /\ others' # <<>>) =>
            /\ pc \in {"g_ssh", "g_sftp"}
            /\ pc' = pc /\ calls' = calls /\ polls' = polls /\ resp' = resp]_vars

C14_Witness ==
    /\ tool = "proxmox_execute_command" /\ pc = "done"
    /\ others # <<>>
    /\ \E i \in DOMAIN others[1].calls : others[1].calls[i].c = Api("GET", "qemu")

----------------------------------------------------------------------------
(* C15 as stated: every response begins with the success, the warning or    *)
(* the error marker.                                                        *)
C15_EveryResponseBeginsWithAStatusMarker ==
    pc = "done" => resp.marker \in {OK, WARN, ERR}

(* C15 amended: every invocation returns one string.  The responses of      *)
(* proxmox_get_server_specs are plain text without any marker.  For every   *)
(* other tool a response to a missing required argument and a response to   *)
(* an exception the tool does not go on after begin with the error marker;  *)
(* the other responses begin with the success marker, the warning marker or *)
(* another emoji (listing, signal, timeout, ...), except the empty snapshot *)
(* listing, which has no marker.                                            *)
C15_ErrorResponsesBeginWithTheErrorMarker ==
    /\ ~crashed
    /\ pc = "done" =>
          /\ resp # NoResp
          /\ tool = "proxmox_get_server_specs" => resp.marker = "none"
          /\ tool # "proxmox_get_server_specs" =>
                /\ MissingRequired(tool, args) => resp.marker = ERR
                /\ (Raised /\ ~Absorbed) => resp.marker = ERR
                /\ resp.marker = "none" => resp = Resp("none", "No snapshots found")

C15_Witness ==
    /\ pc = "done" /\ tool = "proxmox_manage_snapshot"
    /\ resp = Resp("none", "No snapshots found")

----------------------------------------------------------------------------
(* C19: document_generate_word with non-empty content, with empty or valid  *)
(* placeholders, with no template or an existing one, and with no library   *)
(* or filesystem call failing, saves the document and returns the success   *)
(* response.                                                                *)
C19_WordWithContentIsSaved ==
    (/\ pc = "done" /\ tool = "document_generate_word"
     /\ ~Blank(args.content)
     /\ args.placeholders # "bad"
     /\ (Blank(args.template) \/ args.exists)
     /\ \A i \in DOMAIN calls : calls[i].out = "ok")
        => /\ resp = Resp(OK, "Word document generated successfully")
           /\ At(Fs("write output"), {"ok"}) # {}

(* C20: when proxmox_create_vm_from_template returns the 'Error cloning VM' *)
(* response the clone request of the invocation did not succeed.            *)
C20_CloneErrorMeansNothingCloned ==
    (tool = "proxmox_create_vm_from_template" /\ resp = CloneError)
        => At(Api("POST", "qemu/clone"), {"ok"}) = {}

----------------------------------------------------------------------------
(* The helper functions of the two servers, as functions.  A string is a    *)
(* sequence of tokens (a token stands for one or more characters that the   *)
(* code never takes apart); "NL" is a newline, "PB" two newlines, "*" an    *)
(* asterisk, "|" a bar, " " a blank.                                        *)
RECURSIVE Concat(_)
Concat(ss) == IF ss = <<>> THEN <<>> ELSE Head(ss) \o Concat(Tail(ss))

\* `k in t` of Python strings
Contains(t, k) == \E i \in 0..(Len(t) - Len(k)) : SubSeq(t, i + 1, i + Len(k)) = k

StartsWith(t, k) == Len(t) >= Len(k) /\ SubSeq(t, 1, Len(k)) = k
EndsWith(t, k) == Len(t) >= Len(k) /\ SubSeq(t, Len(t) - Len(k) + 1, Len(t)) = k

\* t.replace(target, new), target not empty
RECURSIVE ReplaceAll(_, _, _)
ReplaceAll(t, target, new) ==
    IF Len(t) < Len(target) THEN t
    ELSE IF StartsWith(t, target)
         THEN new \o ReplaceAll(SubSeq(t, Len(target) + 1, Len(t)), target, new)
    ELSE <<Head(t)>> \o ReplaceAll(Tail(t), target, new)

\* t.split(sep) for a separator of one token
RECURSIVE SplitOn(_, _)
SplitOn(t, sep) ==
    IF \A i \in DOMAIN t : t[i] # sep THEN <<t>>
    ELSE LET i == CHOOSE j \in DOMAIN t : t[j] = sep /\ \A h \in 1..(j - 1) : t[h] # sep
         IN  <<SubSeq(t, 1, i - 1)>> \o SplitOn(SubSeq(t, i + 1, Len(t)), sep)

White == {" ", "NL", "PB"}

\* t.strip()
RECURSIVE StripT(_)
StripT(t) ==
    IF t = <<>> THEN t
    ELSE IF Head(t) \in White THEN StripT(Tail(t))
    ELSE IF t[Len(t)] \in White THEN StripT(SubSeq(t, 1, Len(t) - 1))
    ELSE t

(* A paragraph: its runs (text and character style; a picture is a run      *)
(* without text) and its alignment ("keep": whatever the style gives).      *)
Run(text, style) == [text |-> text, style |-> style]
Para(runs, align) == [runs |-> runs, align |-> align]

\* paragraph.text
ParaText(p) == Concat([i \in DOMAIN p.runs |-> p.runs[i].text])

\* paragraph.text = t: the runs are replaced by one run
SetText(p, t) == [p EXCEPT !.runs = <<Run(t, "plain")>>]

\* paragraph.clear()
Clear(p) == [p EXCEPT !.runs = <<>>]

\* re.split on a bold span (two asterisks, anything, two asterisks) or an
\* italic span (asterisk, anything, asterisk), shortest spans, the pattern in
\* a group: the text before the first match, the match, and so on for the
\* rest; empty pieces are kept.  MdMatchEnd: where the match starting at i
\* ends, 0 when there is none.
MdMatchEnd(t, i) ==
    IF t[i] # "*" THEN 0
    ELSE IF i + 1 <= Len(t) /\ t[i + 1] = "*"
            /\ \E j \in (i + 2)..(Len(t) - 1) : t[j] = "*" /\ t[j + 1] = "*"
         THEN 1 + CHOOSE j \in (i + 2)..(Len(t) - 1) :
                     /\ t[j] = "*" /\ t[j + 1] = "*"
                     /\ \A h \in (i + 2)..(j - 1) : ~(t[h] = "*" /\ t[h + 1] = "*")
    ELSE IF \E j \in (i + 1)..Len(t) : t[j] = "*"
         THEN CHOOSE j \in (i + 1)..Len(t) : t[j] = "*" /\ \A h \in (i + 1)..(j - 1) : t[h] # "*"
    ELSE 0

RECURSIVE MdSplit(_)
MdSplit(t) ==
    LET starts == {i \in DOMAIN t : MdMatchEnd(t, i) # 0}
    IN  IF starts = {} THEN <<t>>
        ELSE LET i == CHOOSE j \in starts : \A h \in starts : j <= h
                 e == MdMatchEnd(t, i)
             IN  <<SubSeq(t, 1, i - 1), SubSeq(t, i, e)>> \o MdSplit(SubSeq(t, e + 1, Len(t)))

MdRun(part) ==
    IF StartsWith(part, <<"*", "*">>) /\ EndsWith(part, <<"*", "*">>)
    THEN Run(SubSeq(part, 3, Len(part) - 2), "bold")
    ELSE IF StartsWith(part, <<"*">>) /\ EndsWith(part, <<"*">>)
         THEN Run(SubSeq(part, 2, Len(part) - 1), "italic")
    ELSE Run(part, "plain")

\* The runs parse_markdown_to_runs adds to a paragraph for `content`.
RECURSIVE MdLines(_)
MdLines(lines) ==
    IF lines = <<>> THEN <<>>
    ELSE LET line == Head(lines)
             these == IF StripT(line) = <<>> THEN <<Run(<<"NL">>, "plain")>>
                      ELSE LET parts == MdSplit(line)
                           IN  [i \in DOMAIN parts |-> MdRun(parts[i])]
                               \o <<Run(<<"NL">>, "plain")>>
         IN  these \o MdLines(Tail(lines))

parse_markdown_to_runs(para, content) ==
    [para EXCEPT !.runs = @ \o MdLines(SplitOn(content, "NL"))]

(* parse_markdown_table: the table built from a markdown table, <<>> when   *)
(* the text has fewer than two lines.  A table is a sequence of rows, a row *)
(* a sequence of cells, a cell a sequence of paragraphs.                    *)
MdCells(line) ==
    LET cs == SplitOn(line, "|")
    IN  IF Len(cs) <= 2 THEN <<>>
        ELSE [i \in 1..(Len(cs) - 2) |-> StripT(cs[i + 1])]

RECURSIVE MdDataRows(_)
MdDataRows(lines) ==
    IF lines = <<>> THEN <<>>
    ELSE (IF StripT(Head(lines)) # <<>> /\ ~StartsWith(Head(lines), <<"|", "---">>)
          THEN <<MdCells(Head(lines))>> ELSE <<>>) \o MdDataRows(Tail(lines))

parse_markdown_table(table_md) ==
    LET lines == SplitOn(StripT(table_md), "NL")
    IN  IF Len(lines) < 2 THEN <<>>
        ELSE LET headers == MdCells(lines[1])
                 rows == MdDataRows(SubSeq(lines, 3, Len(lines)))
                 hdr == [i \in DOMAIN headers |-> <<Para(<<Run(headers[i], "bold")>>, "center")>>]
                 row(r) == [i \in DOMAIN headers |->
                               IF i <= Len(r) THEN <<Para(<<Run(r[i], "plain")>>, "left")>>
                                              ELSE <<Para(<<>>, "keep")>>]
             IN  <<<<hdr>> \o [k \in DOMAIN rows |-> row(rows[k])]>>

----------------------------------------------------------------------------
(* replace_placeholders_in_doc.  The placeholder map is the sequence of its *)
(* (key, value) pairs in iteration order.                                   *)
Bracketed(key) == <<"[">> \o key \o <<"]">>

\* os.path.exists(image_path)
ImageExists(path) == path = <<"img.png">>

\* Variant of Target: every key is taken as found.
Target_always(text, key) == key

\* The text to replace in a paragraph for a key, <<>> when the key is absent.
Target(text, key) ==
    IF Contains(text, key) THEN key
    ELSE IF Contains(text, Bracketed(key)) THEN Bracketed(key)
    ELSE <<>>

\* The paragraph after a text value was put in: `paragraph.text = part`, the
\* markdown runs when the part has an asterisk, left alignment.
WithText(p, part) ==
    LET q == SetText(p, part)
    IN  [(IF "*" \in {part[i] : i \in DOMAIN part} THEN parse_markdown_to_runs(q, part) ELSE q)
            EXCEPT !.align = "left"]

ImageNotFound(path) == <<"[Image not found: ">> \o path \o <<"]">>

IsImageKey(key) == StartsWith(key, <<"{image">>)
IsTableValue(key, value) == key = <<"{findings}">> /\ "|" \in {value[i] : i \in DOMAIN value}

\* The image branch, the same for body and cell paragraphs.
WithImage(p, target, value) ==
    IF ImageExists(value) THEN Para(<<Run(<<>>, "picture")>>, "center")
    ELSE SetText(p, ReplaceAll(ParaText(p), target, ImageNotFound(value)))

\* The text branch of a body paragraph: the first part goes into the
\* paragraph, every further part into a new paragraph behind the last one,
\* and `paragraph` is bound to the last of them.
WithParts(st, parts) ==
    LET first == WithText(st.cur, parts[1])
        more  == [i \in 1..(Len(parts) - 1) |-> WithText(Para(<<>>, "keep"), parts[i + 1])]
    IN  IF Len(parts) = 1 THEN [st EXCEPT !.cur = first]
        ELSE [st EXCEPT !.done = @ \o <<first>> \o SubSeq(more, 1, Len(more) - 1),
                        !.cur = more[Len(more)]]

(* One body paragraph against the keys k.. of the map.  st.done: paragraphs *)
(* finished before the current one, st.cur: the paragraph the name          *)
(* `paragraph` is bound to, st.tables: tables added at the end of the body. *)
BodyKey(st, key, value) ==
    LET target == Target(ParaText(st.cur), key)
    IN  IF target = <<>> THEN st
        ELSE IF IsImageKey(key)
             THEN [st EXCEPT !.cur = WithImage(st.cur, target, value)]
        ELSE IF IsTableValue(key, value)
             THEN [st EXCEPT !.cur = Clear(st.cur),
                             !.tables = @ \o parse_markdown_table(value)]
        ELSE WithParts(st, SplitOn(value, "PB"))

RECURSIVE BodyKeys(_, _, _)
BodyKeys(st, ph, k) ==
    IF k > Len(ph) THEN st
    ELSE CHOOSE r \in {BodyKeys(next, ph, k + 1) : next \in {BodyKey(st, ph[k][1], ph[k][2])}} : TRUE

\* The loop over doc.paragraphs, the list taken before the loop; acc: the
\* body and the added tables so far.
RECURSIVE BodyParagraphs(_, _, _)
BodyParagraphs(paras, ph, acc) ==
    IF paras = <<>> THEN acc
    ELSE CHOOSE r \in
            {BodyParagraphs(Tail(paras), ph,
                            [body |-> acc.body \o st.done \o <<st.cur>>, tables |-> st.tables]) :
                st \in {BodyKeys([done |-> <<>>, cur |-> Head(paras), tables |-> acc.tables],
                                 ph, 1)}} : TRUE

(* One paragraph of a table cell against the keys k.. of the map.  A        *)
(* markdown table for a cell paragraph is built at the end of the body,     *)
(* moved behind the paragraph by addnext, and then removed from the body,   *)
(* where it no longer is: the removal raises ValueError.                    *)
CellKey(st, key, value) ==
    LET target == Target(ParaText(st.p), key)
    IN  IF target = <<>> THEN st
        ELSE IF IsImageKey(key)
             THEN [st EXCEPT !.p = WithImage(st.p, target, value)]
        ELSE IF IsTableValue(key, value)
             THEN [p |-> Clear(st.p),
                   exc |-> IF parse_markdown_table(value) = <<>> THEN "none" ELSE "ValueError"]
        ELSE [st EXCEPT !.p = WithText(st.p, SplitOn(value, "PB")[1])]

RECURSIVE CellKeys(_, _, _)
CellKeys(st, ph, k) ==
    IF k > Len(ph) \/ st.exc # "none" THEN st
    ELSE CHOOSE r \in {CellKeys(next, ph, k + 1) : next \in {CellKey(st, ph[k][1], ph[k][2])}} : TRUE

\* Position <<table, row, cell, paragraph>> a comes before b in the loops.
Before(a, b) ==
    \E i \in 1..4 : a[i] < b[i] /\ \A j \in 1..(i - 1) : a[j] = b[j]

(* The loops over tables, rows, cells and paragraphs: every paragraph up to *)
(* and including the first one that raises is handled, the others are left. *)
Tables(tables, ph) ==
    LET pos == {q \in (DOMAIN tables) \X (1..4) \X (1..4) \X (1..4) :
                   /\ q[2] \in DOMAIN tables[q[1]]
                   /\ q[3] \in DOMAIN tables[q[1]][q[2]]
                   /\ q[4] \in DOMAIN tables[q[1]][q[2]][q[3]]}
        new == [q \in pos |-> CellKeys([p |-> tables[q[1]][q[2]][q[3]][q[4]], exc |-> "none"],
                                       ph, 1)]
    IN  CHOOSE res \in
            {[tables |-> [t \in DOMAIN tables |-> [r \in DOMAIN tables[t] |->
                            [c \in DOMAIN tables[t][r] |-> [i \in DOMAIN tables[t][r][c] |->
                                IF \A q \in DOMAIN n : n[q].exc # "none" =>
                                        (q = <<t, r, c, i>> \/ Before(<<t, r, c, i>>, q))
                                THEN n[<<t, r, c, i>>].p
                                ELSE tables[t][r][c][i]]]]],
              exc |-> IF \E q \in DOMAIN n : n[q].exc # "none" THEN "ValueError" ELSE "none"] :
                n \in {new}} : TRUE

\* The document after the call, and the exception the call raised.
replace_placeholders_in_doc(doc, placeholders) ==
    CHOOSE r \in
        {[doc |-> [body |-> b.body, tables |-> t.tables], exc |-> t.exc] :
            <<b, t>> \in {<<x, Tables(x.tables, placeholders)>> :
                            x \in {BodyParagraphs(doc.body, placeholders,
                                                  [body |-> <<>>, tables |-> doc.tables])}}} : TRUE

----------------------------------------------------------------------------
(* document_generate_excel: the JSON text to the rows of the sheet.  The    *)
(* text is a sequence of tokens: brackets, commas, scalars, and "{}" for an *)
(* object.  A parsed value is tagged: "s" scalar, "l" list, "o" object.     *)
Scalars == {"a", "b", "1"}

Scalar(x) == [t |-> "s", v |-> x]
List(xs) == [t |-> "l", v |-> xs]
Object == [t |-> "o", v |-> <<>>]

NoParse == [ok |-> FALSE, val |-> Scalar(""), next |-> 0]

RECURSIVE ParseValue(_, _), ParseItems(_, _, _)
ParseValue(ts, i) ==
    IF i > Len(ts) THEN NoParse
    ELSE IF ts[i] \in Scalars THEN [ok |-> TRUE, val |-> Scalar(ts[i]), next |-> i + 1]
    ELSE IF ts[i] = "{}" THEN [ok |-> TRUE, val |-> Object, next |-> i + 1]
    ELSE IF ts[i] = "["
         THEN IF i + 1 <= Len(ts) /\ ts[i + 1] = "]"
              THEN [ok |-> TRUE, val |-> List(<<>>), next |-> i + 2]
              ELSE ParseItems(ts, i + 1, <<>>)
    ELSE NoParse

ParseItems(ts, i, acc) ==
    LET v == ParseValue(ts, i)
    IN  IF ~v.ok \/ v.next > Len(ts) THEN NoParse
        ELSE IF ts[v.next] = "," THEN ParseItems(ts, v.next + 1, Append(acc, v.val))
        ELSE IF ts[v.next] = "]"
             THEN [ok |-> TRUE, val |-> List(Append(acc, v.val)), next |-> v.next + 1]
        ELSE NoParse

\* json.loads: the value, or JSONDecodeError (ok = FALSE)
json_loads(ts) ==
    LET v == ParseValue(ts, 1)
    IN  IF v.ok /\ v.next = Len(ts) + 1 THEN v ELSE NoParse

\* Variant of SheetRow: an element that is not a list is skipped.
SheetRow_lists_only(row) == IF row.t = "l" THEN row.v ELSE <<>>

\* The row handed to ws.append for one element of the data.
SheetRow(row) == IF row.t = "l" THEN row.v ELSE <<row>>

(* Lines 270-304 without the template and the file system: the response     *)
(* and the rows of the active sheet when the workbook is saved.  ws.append  *)
(* raises ValueError for a cell value that is a list or an object.          *)
excel_rows(data) ==
    IF StripT(data) = <<>> THEN [resp |-> Resp(ERR, "Data is required (JSON format)"), rows |-> <<>>]
    ELSE LET parsed == json_loads(data)
         IN  IF ~parsed.ok THEN [resp |-> Resp(ERR, "Invalid JSON data"), rows |-> <<>>]
             ELSE IF parsed.val.t # "l"
                  THEN [resp |-> Resp(ERR, "Data must be a JSON array of arrays"), rows |-> <<>>]
             ELSE LET rows == [i \in DOMAIN parsed.val.v |-> SheetRow(parsed.val.v[i])]
                  IN  IF \E i \in DOMAIN rows : \E j \in DOMAIN rows[i] : rows[i][j].t # "s"
                      THEN [resp |-> DocError, rows |-> <<>>]
                      ELSE [resp |-> Resp(OK, "Excel document generated successfully"),
                            rows |-> [i \in DOMAIN rows |->
                                        [j \in DOMAIN rows[i] |-> rows[i][j].v]]]

----------------------------------------------------------------------------
(* get_next_vmid.  A cluster resource is a record with or without a vmid    *)
(* field; a vmid is an integer or a string of digits, int() takes both.     *)
FirstVmid == 100

RECURSIVE DigitsToInt(_)
DigitsToInt(ds) == IF ds = <<>> THEN 0 ELSE 10 * DigitsToInt(SubSeq(ds, 1, Len(ds) - 1)) + ds[Len(ds)]

RECURSIVE IntToDigits(_)
IntToDigits(n) == IF n < 10 THEN <<n>> ELSE Append(IntToDigits(n \div 10), n % 10)

\* int(res['vmid'])
IntOf(v) == IF "int" \in DOMAIN v THEN v.int ELSE DigitsToInt(v.str)

RECURSIVE NextFree(_, _)
NextFree(candidate, ids) == IF candidate \in ids THEN NextFree(candidate + 1, ids) ELSE candidate

\* Variant of get_next_vmid: one more than the largest id.
get_next_vmid_after_max(resources) ==
    LET ids == {IntOf(resources[i].vmid) : i \in {j \in DOMAIN resources : "vmid" \in DOMAIN resources[j]}}
    IN  IntToDigits(IF ids = {} THEN FirstVmid
                    ELSE 1 + CHOOSE m \in ids : \A n \in ids : n <= m)

\* The string get_next_vmid returns for the listed resources.
get_next_vmid(resources) ==
    LET ids == {IntOf(resources[i].vmid) : i \in {j \in DOMAIN resources : "vmid" \in DOMAIN resources[j]}}
    IN  IntToDigits(NextFree(FirstVmid, ids))

----------------------------------------------------------------------------
(* The helper functions applied to inputs: args holds the input, resp the   *)
(* result, tool the function's name.                                        *)
MaxParas == 2
MaxKeys == 2
MaxRows == 2
MaxResources == 3

SeqsUpTo(S, n) == UNION {[1..m -> S] : m \in 0..n}

ParaSet ==
    {Para(<<Run(<<"a">>, "bold")>>, "center"),
     Para(<<Run(<<"{k}">>, "plain")>>, "keep"),
     Para(<<Run(<<"x">>, "plain"), Run(<<"y">>, "bold")>>, "keep"),
     Para(<<Run(<<"see ", "[", "{image", "1}", "]">>, "plain")>>, "keep"),
     Para(<<Run(<<"{findings}">>, "plain")>>, "keep")}

MdTable == <<"|", "h", "|", "NL", "|", "---", "|", "NL", "|", "c", "|">>

PairSet ==
    {<<<<"{k}">>, <<"v">>>>,
     <<<<"{k}">>, <<"v", "PB", "*", "w", "*">>>>,
     <<<<"{k}">>, <<"{k}", "!">>>>,
     <<<<"x", "y">>, <<"a">>>>,
     <<<<"{image", "1}">>, <<"img.png">>>>,
     <<<<"{image", "1}">>, <<"no.png">>>>,
     <<<<"{findings}">>, MdTable>>,
     <<<<"{findings}">>, <<"none">>>>}

DocSet ==
    {[body |-> b, tables |-> t] :
        b \in SeqsUpTo(ParaSet, MaxParas) \ {<<>>},
        t \in {<<>>} \cup {<<<<<<<<p>>>>>>>> : p \in ParaSet}}

MapSet ==
    {m \in SeqsUpTo(PairSet, MaxKeys) \ {<<>>} :
        \A i, j \in DOMAIN m : i # j => m[i][1] # m[j][1]}

RECURSIVE Dumps(_)
Dumps(v) ==
    IF v.t = "s" THEN <<v.v>>
    ELSE IF v.t = "o" THEN <<"{}">>
    ELSE <<"[">> \o Concat([i \in DOMAIN v.v |->
                               (IF i = 1 THEN <<>> ELSE <<",">>) \o Dumps(v.v[i])]) \o <<"]">>

ElementSet ==
    {Scalar(x) : x \in Scalars} \cup {Object}
    \cup {List(xs) : xs \in SeqsUpTo({Scalar(x) : x \in {"a", "1"}}, 2)}

NotJson == [t |-> "-", v |-> <<>>]

\* JSON texts with the value they were written from: arrays of elements,
\* other values, and texts that are not JSON
DataSet ==
    {[data |-> Dumps(v), value |-> v] :
        v \in {List(es) : es \in SeqsUpTo(ElementSet, MaxRows)} \cup {Scalar("a"), Object}}
    \cup {[data |-> d, value |-> NotJson] :
            d \in {<<>>, <<" ">>, <<"[", "a", ",">>, <<"[", "a", "]", "]">>, <<"a", "b">>}}

ResourceSet ==
    {[name |-> "storage"]}
    \cup {[vmid |-> [int |-> n]] : n \in {99, 100, 101, 102}}
    \cup {[vmid |-> [str |-> ds]] : ds \in {<<1, 0, 0>>, <<1, 0, 1>>}}

\* A function was applied: position, name, input and result.
Applied(to, t, a, r) ==
    /\ pc' = to
    /\ tool' = t
    /\ args' = a
    /\ resp' = r
    /\ UNCHANGED <<cfg, secret_file, calls, polls, last_status, failure, crashed, others>>

Apply_replace_placeholders_in_doc ==
    /\ pc = "idle"
    /\ \E doc \in DocSet, ph \in MapSet :
        Applied("applied", "replace_placeholders_in_doc",
                [doc |-> doc, placeholders |-> ph, first |-> doc],
                replace_placeholders_in_doc(doc, ph))

\* the same map applied to the result of the first pass
Apply_replace_placeholders_again ==
    /\ pc = "applied" /\ tool = "replace_placeholders_in_doc"
    /\ resp.exc = "none"
    /\ Applied("again", "replace_placeholders_in_doc",
               [doc |-> resp.doc, placeholders |-> args.placeholders, first |-> args.doc],
               replace_placeholders_in_doc(resp.doc, args.placeholders))

Apply_excel_rows ==
    /\ pc = "idle"
    /\ \E d \in DataSet :
        Applied("applied", "excel_rows", d, excel_rows(d.data))

Apply_get_next_vmid ==
    /\ pc = "idle"
    /\ \E rs \in SeqsUpTo(ResourceSet, MaxResources) :
        Applied("applied", "get_next_vmid", [resources |-> rs], [vmid |-> get_next_vmid(rs)])

----------------------------------------------------------------------------
(* The log records of the log_activity decorator.  A record is the event,   *)
(* the tool and what the event carries (the arguments as logged, the        *)
(* status, the exception text); the duration is left out.                   *)
SecretNames == {"password", "secret", "token", "ssh_password", "ssh_private_key"}
Redacted == "***REDACTED***"

\* `k.lower()` on the keyword names that occur
Lower(k) ==
    CASE k = "SSH_Password" -> "ssh_password"
      [] k = "Token" -> "token"
      [] OTHER -> k

\* Variant of safe_kwargs: the names are compared without `.lower()`.
safe_kwargs_case_sensitive(kwargs) ==
    [k \in DOMAIN kwargs |-> IF k \in SecretNames THEN Redacted ELSE kwargs[k]]

safe_kwargs(kwargs) ==
    [k \in DOMAIN kwargs |-> IF Lower(k) \in SecretNames THEN Redacted ELSE kwargs[k]]

\* `status` of the finish record
Status(r) ==
    IF r.marker = ERR THEN "error" ELSE IF r.marker = WARN THEN "warning" ELSE "success"

LogRecord(event, t, info) == [event |-> event, tool |-> t, info |-> info]

\* The records the wrapper emits around one call of the tool; fr is what the
\* call of the wrapped function gave.
wrapper_log(t, kwargs, fr) ==
    <<LogRecord("Tool Start", t, "-"),
      LogRecord("Arguments", t, safe_kwargs(kwargs)),
      IF fr.exc = "none" THEN LogRecord("Tool Finish", t, Status(fr.resp))
                         ELSE LogRecord("Tool Crash", t, fr.exc)>>

\* Parameters of proxmox_execute_command (ssh_port left at its default).
ExecuteParams == {"node", "vmid", "command", "ip_address", "ssh_user",
                  "ssh_password", "ssh_private_key"}

(* proxmox_execute_command called with keyword arguments: a keyword that is *)
(* not a parameter raises TypeError; the parameters not given take their    *)
(* default "".  env.agent is what the guest-agent path gives, env.run how   *)
(* the SSH command goes when the fallback runs it.                          *)
execute_command_kwargs(kwargs, env) ==
    IF ~(DOMAIN kwargs \subseteq ExecuteParams) THEN Raises(<<>>, "TypeError")
    ELSE LET a == [k \in ExecuteParams |-> IF k \in DOMAIN kwargs THEN kwargs[k] ELSE ""]
         IN  IF Empty(a.node) \/ Empty(a.vmid) \/ Empty(a.command)
             THEN Returns(<<>>, Resp(ERR, "Node, VMID, and command are required"))
             ELSE IF env.agent = "ok"
                  THEN Returns(<<>>, Resp(OK, "executed successfully via Guest Agent"))
             ELSE IF AgentExcept(env.agent) = "propagate" THEN Raises(<<>>, env.agent)
             ELSE IF CredsIncomplete(a) THEN Returns(<<>>, NeedCreds)
             ELSE ssh_command(a, env.run)

\* Keyword arguments of an invocation: the required ones, the SSH address,
\* and any of a password, a key and one keyword in another letter case.
SecretValues == {"", "x", "y"}
KwargsSet ==
    LET base == [node |-> "x", vmid |-> "x", command |-> "x", ip_address |-> "x",
                 ssh_user |-> "x"]
        opt(k) == {<<>>} \cup {(k :> v) : v \in SecretValues}
    IN  {base @@ p @@ q : p \in opt("ssh_password"), q \in opt("ssh_private_key")}
        \cup {base @@ p @@ q : p \in opt("ssh_password"),
                               q \in {(k :> v) : k \in {"SSH_Password", "Token"},
                                                 v \in SecretValues \ {""}}}
        \cup {[node |-> n, vmid |-> "x", command |-> "x", token |-> v] :
                  n \in Val, v \in SecretValues}

\* The keywords whose values the two invocations of a pair may differ in.
SecretKeys(kwargs) == {k \in DOMAIN kwargs : Lower(k) \in SecretNames}

\* Two invocations that differ at most in the values of their secret
\* keywords, run against the same behaviour of the environment.
Apply_log_activity ==
    /\ pc = "idle"
    /\ \E a \in KwargsSet, b \in KwargsSet,
          env \in [agent : {"ok", "unavailable", "other"}, run : {"connect fails", "exit 0", "exit 1"}] :
        /\ DOMAIN a = DOMAIN b
        /\ \A k \in DOMAIN a \ SecretKeys(a) : a[k] = b[k]
        /\ Applied("applied", "log_activity", [first |-> a, second |-> b, env |-> env],
                   [first |-> wrapper_log("proxmox_execute_command", a,
                                          execute_command_kwargs(a, env)),
                    second |-> wrapper_log("proxmox_execute_command", b,
                                           execute_command_kwargs(b, env))])

----------------------------------------------------------------------------
(* generate_secure_password.  The alphabet is string.ascii_letters +        *)
(* string.digits + string.punctuation; two lowercase letters and one        *)
(* character of each other class stand for it.                              *)
Alphabet == {"a", "b", "A", "1", "!"}
IsLower(c) == c \in {"a", "b"}
IsUpper(c) == c = "A"
IsDigit(c) == c = "1"
IsPunctuation(c) == c = "!"

\* `length=12`
DefaultLength == 12
\* Lengths up to which every candidate is drawn.
MaxLength == 5
\* Length of the pattern that a candidate of a greater length repeats.
PatternLength == 4

\* Variant of HasAllClasses: the punctuation test left out.
HasAllClasses_without_punctuation(password) ==
    /\ \E i \in DOMAIN password : IsLower(password[i])
    /\ \E i \in DOMAIN password : IsUpper(password[i])
    /\ \E i \in DOMAIN password : IsDigit(password[i])

\* the condition of the `if` in the loop
HasAllClasses(password) ==
    /\ \E i \in DOMAIN password : IsLower(password[i])
    /\ \E i \in DOMAIN password : IsUpper(password[i])
    /\ \E i \in DOMAIN password : IsDigit(password[i])
    /\ \E i \in DOMAIN password : IsPunctuation(password[i])

\* What `''.join(secrets.choice(alphabet) for i in range(length))` can give.
Candidates(length) ==
    IF length <= 0 THEN {<<>>}
    ELSE IF length <= MaxLength THEN [1..length -> Alphabet]
    ELSE {[i \in 1..length |-> p[((i - 1) % PatternLength) + 1]] :
              p \in [1..PatternLength -> Alphabet]}

\* The function is called; nothing is drawn yet.
generate_secure_password_start ==
    /\ pc = "idle"
    /\ \E length \in (0..MaxLength) \cup {DefaultLength} :
        Applied("drawing", "generate_secure_password", [length |-> length],
                [rejected |-> FALSE])

\* One turn of `while True`: a candidate is drawn, returned if it has all
\* four classes, dropped otherwise.  resp.rejected: a candidate was dropped.
generate_secure_password_draw ==
    /\ pc = "drawing"
    /\ \E password \in Candidates(args.length) :
        IF HasAllClasses(password)
        THEN Applied("applied", tool, args, [password |-> password, rejected |-> resp.rejected])
        ELSE Applied("drawing", tool, args, [rejected |-> TRUE])

FunInit == Init /\ cfg.password = "x" /\ cfg.url = "x" /\ secret_file = "absent"

FunNext ==
    \/ Apply_replace_placeholders_in_doc
    \/ Apply_replace_placeholders_again
    \/ Apply_excel_rows
    \/ Apply_get_next_vmid
    \/ Apply_log_activity
    \/ generate_secure_password_start
    \/ generate_secure_password_draw

FunSpec == FunInit /\ [][FunNext]_vars

----------------------------------------------------------------------------
\* All paragraphs of a document: those of the body and of the table cells.
AllParagraphs(doc) ==
    {doc.body[i] : i \in DOMAIN doc.body}
    \cup UNION {UNION {UNION {{doc.tables[t][r][c][i] : i \in DOMAIN doc.tables[t][r][c]} :
                                c \in DOMAIN doc.tables[t][r]} :
                          r \in DOMAIN doc.tables[t]} :
                   t \in DOMAIN doc.tables}

\* No paragraph contains a key of the map, bare or in brackets.
NoKeyIn(doc, ph) ==
    \A p \in AllParagraphs(doc) : \A k \in DOMAIN ph :
        /\ ~Contains(ParaText(p), ph[k][1])
        /\ ~Contains(ParaText(p), <<"[">> \o ph[k][1] \o <<"]">>)

(* C16: replace_placeholders_in_doc applied to a document in which no       *)
(* paragraph of the body or of a table cell contains a key of the map, bare *)
(* or in brackets, raises nothing and leaves the document as it is: every   *)
(* paragraph, run, alignment and table; so does a second pass after a pass  *)
(* that left no key in the text.                                            *)
C16_NoPlaceholderNoChange ==
    (/\ tool = "replace_placeholders_in_doc" /\ pc \in {"applied", "again"}
     /\ NoKeyIn(args.doc, args.placeholders))
        => resp = [doc |-> args.doc, exc |-> "none"]

C16_Witness ==
    /\ tool = "replace_placeholders_in_doc" /\ pc = "again"
    /\ args.first # args.doc
    /\ NoKeyIn(args.doc, args.placeholders)
    /\ resp.doc = args.doc

C18_NextVmidIsTheSmallestFree ==
    (tool = "get_next_vmid" /\ pc = "applied") =>
        LET num(ds) == 100 * ds[1] + 10 * ds[2] + ds[3]
            with == {i \in DOMAIN args.resources : "vmid" \in DOMAIN args.resources[i]}
            ids == {IF "int" \in DOMAIN args.resources[i].vmid
                    THEN args.resources[i].vmid.int
                    ELSE num(args.resources[i].vmid.str) : i \in with}
            n == num(resp.vmid)
        IN  /\ Len(resp.vmid) = 3
            /\ n >= 100
            /\ n \notin ids
            /\ \A m \in 100..(n - 1) : m \in ids

C18_Witness ==
    /\ tool = "get_next_vmid" /\ pc = "applied"
    /\ args.resources = <<[vmid |-> [int |-> 99]], [name |-> "storage"],
                          [vmid |-> [str |-> <<1, 0, 0>>]]>>
    /\ resp.vmid = <<1, 0, 1>>

----------------------------------------------------------------------------
\* Tools that address a guest as a VM first and as a container second.
EitherKind == {"proxmox_control_vm", "proxmox_delete_vm", "proxmox_migrate_vm"}

\* Positions of the API requests of the invocation, by endpoint family.
Requests == {i \in DOMAIN calls : calls[i].c.kind = "api"}
QemuRequests == {i \in Requests : calls[i].c.path \in
                    {"qemu", "qemu/migrate", "qemu/status/start", "qemu/status/stop"}}
LxcRequests == {i \in Requests : calls[i].c.path \in
                    {"lxc", "lxc/migrate", "lxc/status/start", "lxc/status/stop"}}

\* Order and number of the two requests: at most one of each, the lxc
\* request only after a failed qemu request, at most one success.
QemuFirst ==
    /\ Requests = QemuRequests \cup LxcRequests
    /\ Cardinality(QemuRequests) <= 1 /\ Cardinality(LxcRequests) <= 1
    /\ \A l \in LxcRequests : \E q \in QemuRequests : q < l /\ calls[q].out # "ok"
    /\ Cardinality({i \in Requests : calls[i].out = "ok"}) <= 1

BothFailed ==
    /\ QemuRequests # {} /\ LxcRequests # {}
    /\ \A i \in Requests : calls[i].out # "ok"

(* C21 as stated: control, delete and migrate request the qemu endpoint     *)
(* first and the lxc endpoint only after the qemu request of the same       *)
(* invocation failed; at most one request succeeds; and an error response   *)
(* is returned only when both requests failed.                              *)
C21_ErrorOnlyWhenBothRequestsFailed ==
    (tool \in EitherKind /\ pc = "done") =>
        /\ QemuFirst
        /\ IsError(resp) => BothFailed

(* C21 amended: the order of the requests is as stated and at most one      *)
(* succeeds; once the qemu request was issued an error response is returned *)
(* exactly when both requests failed.  An error response without any        *)
(* request is returned when an argument is rejected or the API client       *)
(* cannot be obtained.                                                      *)
C21_ErrorAfterARequestOnlyWhenBothFailed ==
    (tool \in EitherKind /\ pc = "done") =>
        /\ QemuFirst
        /\ ~crashed
        /\ Requests # {} => (IsError(resp) <=> BothFailed)
        /\ Requests = {} => /\ IsError(resp)
                            /\ \/ MissingRequired(tool, args) \/ calls = <<>>
                               \/ calls[Len(calls)].out # "ok" \/ ~Issued("client")

C21_Witness ==
    /\ tool = "proxmox_delete_vm" /\ pc = "done"
    /\ \E q \in QemuRequests, l \in LxcRequests :
          q < l /\ calls[q].out = "resource" /\ calls[l].out = "ok"
    /\ resp = Resp("bin", "LXC deleted")

----------------------------------------------------------------------------
\* Positions of the requests of proxmox_update_vm.
Fetches == {i \in Requests : calls[i].c.m = "GET"}
ConfigUpdates == {i \in Requests : calls[i].c.m = "POST" /\ calls[i].c.path = "qemu/config"}
Restarts == {i \in Requests : calls[i].c.path \in {"qemu/status/reboot", "qemu/status/start"}}
Positive == {k \in {"cores", "memory"} : args[k] > 0}

\* The invocation names the node and the VM.
Named == ~Blank(args.node) /\ ~Blank(args.vmid)

\* What the claim says of an invocation that gets as far as the requests.
UpdateThenRestart ==
    /\ (\E i \in Fetches : calls[i].out # "ok") => ConfigUpdates = {}
    /\ \A i \in ConfigUpdates : calls[i].c.keys = Positive /\ \A f \in Fetches : f < i
    /\ Cardinality(ConfigUpdates) <= 1
    /\ \A r \in Restarts : \E i \in ConfigUpdates : i < r /\ calls[i].out = "ok"
    /\ \A i \in ConfigUpdates : calls[i].out = "ok" =>
          /\ Cardinality(Restarts) = 1
          /\ \A r \in Restarts :
                /\ calls[r].c.path = (IF args.status = "running" THEN "qemu/status/reboot"
                                                                 ELSE "qemu/status/start")
                /\ resp.marker = OK
                /\ resp.msg = (IF calls[r].out = "ok" THEN "Updated"
                                                      ELSE "Updated, restart failed")

(* C22 as stated: with cores <= 0 and memory <= 0 proxmox_update_vm returns *)
(* a warning without any external call; if fetching the config or status    *)
(* fails no config update is sent; otherwise the update is sent exactly     *)
(* once with only the positive values, and after it succeeds exactly one    *)
(* restart request follows, a reboot if the status was 'running' and a      *)
(* start otherwise; a failed restart still yields the 'Updated' response.   *)
C22_UpdateSentUnlessFetchFails ==
    (tool = "proxmox_update_vm" /\ pc = "done") =>
        /\ Positive = {} => (resp.marker = WARN /\ calls = <<>>)
        /\ UpdateThenRestart
        /\ (Positive # {} /\ \A i \in Fetches : calls[i].out = "ok")
              => Cardinality(ConfigUpdates) = 1

(* C22 amended: the same for an invocation that names the node and the VM;  *)
(* the update is sent exactly once when, besides, the API client was        *)
(* obtained and both fetches succeeded.  With the node or VM id missing the *)
(* response is an error whatever cores and memory are, and when the client  *)
(* cannot be obtained nothing is fetched or sent.                           *)
C22_UpdateSentOnceAfterClientAndFetches ==
    (tool = "proxmox_update_vm" /\ pc = "done") =>
        /\ ~crashed
        /\ (Named /\ Positive = {})
              => (resp = Resp(WARN, "No changes requested") /\ calls = <<>>)
        /\ ~Named => (resp.marker = ERR /\ calls = <<>>)
        /\ UpdateThenRestart
        /\ Cardinality(ConfigUpdates) = 1
              <=> /\ Named /\ Positive # {}
                  /\ \E i \in DOMAIN calls : calls[i].c = Client /\ calls[i].out = "ok"
                  /\ Cardinality(Fetches) = 2 /\ \A i \in Fetches : calls[i].out = "ok"

C22_Witness ==
    /\ tool = "proxmox_update_vm" /\ pc = "done"
    /\ args.cores = 2 /\ args.memory = 0 /\ args.status = "running"
    /\ \E i \in ConfigUpdates : calls[i].out = "ok" /\ calls[i].c.keys = {"cores"}
    /\ \E r \in Restarts : calls[r].c.path = "qemu/status/reboot" /\ calls[r].out # "ok"
    /\ resp = Resp(OK, "Updated, restart failed")

----------------------------------------------------------------------------
\* The secret keywords of the pair have no empty value on one side only.
SameEmptiness ==
    \A k \in SecretKeys(args.first) : (args.first[k] = "") <=> (args.second[k] = "")

----------------------------------------------------------------------------
(* C24: generate_secure_password returns only passwords of exactly the      *)
(* requested length (12 by default) that contain at least one lowercase     *)
(* letter, one uppercase letter, one digit and one punctuation character; a *)
(* candidate lacking one of the four classes is never returned.             *)
C24_PasswordHasLengthAndAllClasses ==
    (tool = "generate_secure_password" /\ pc = "applied") =>
        /\ Len(resp.password) = args.length
        /\ \A class \in {{"a", "b"}, {"A"}, {"1"}, {"!"}} :
              \E i \in 1..Len(resp.password) : resp.password[i] \in class

C24_Witness ==
    /\ tool = "generate_secure_password" /\ pc = "applied"
    /\ args.length = 12
    /\ resp.rejected
    /\ resp.password = <<"b", "A", "1", "!", "b", "A", "1", "!", "b", "A", "1", "!">>

----------------------------------------------------------------------------
\* Positions of the SSH calls of the invocation, by what they do.
SshCalls(what) == {i \in DOMAIN calls : calls[i].c.kind = "ssh" /\ calls[i].c.path = what}

(* C25: every SSH client created by an SSH/SFTP fallback is closed before   *)
(* the operation returns, on every path (successful run, key-parsing        *)
(* failure, connection failure, command or SFTP failure), and every SFTP    *)
(* session that was opened is closed before its client.                     *)
C25_EveryClientAndSessionIsClosed ==
    (tool \in GuestOps /\ pc = "done") =>
        /\ Cardinality(SshCalls("SSHClient")) <= 1
        /\ Cardinality(SshCalls("close")) = Cardinality(SshCalls("SSHClient"))
        /\ \A n \in SshCalls("SSHClient") : \E c \in SshCalls("close") :
              /\ n < c
              /\ \A i \in DOMAIN calls : calls[i].c.kind = "ssh" => i <= c
        /\ \A o \in SshCalls("open_sftp") : calls[o].out = "ok" =>
              \E sc \in SshCalls("sftp.close"), c \in SshCalls("close") : o < sc /\ sc < c

C25_Witness ==
    /\ tool = "proxmox_read_file_vm" /\ pc = "done"
    /\ resp = Resp(ERR, "SFTP read failed: File not found")
    /\ \E o \in SshCalls("open_sftp"), f \in SshCalls("sftp.open"),
          sc \in SshCalls("sftp.close"), c \in SshCalls("close") :
          o < f /\ f < sc /\ sc < c /\ calls[f].out # "ok" /\ c = Len(calls)

----------------------------------------------------------------------------
\* The invocation is one of a read-only operation.
ReadOnly ==
    \/ tool \in {"proxmox_list_nodes", "proxmox_list_vms", "proxmox_get_vm_stats",
                 "proxmox_list_storage", "proxmox_list_content", "proxmox_list_firewall_rules",
                 "proxmox_get_vm_config", "proxmox_get_task_status",
                 "proxmox_get_server_specs", "proxmox_test_connection"}
    \/ tool \in {"proxmox_manage_snapshot", "proxmox_manage_backup"} /\ args.action = "list"

(* C26: the read-only operations (the listings, stats, config, task status, *)
(* server specs, connection test, and the list actions of manage_snapshot   *)
(* and manage_backup) issue only GET requests: on no path a POST, PUT or    *)
(* DELETE request, and nothing over SSH.                                    *)
C26_ReadOnlyOperationsOnlyGet ==
    (pc = "done" /\ ReadOnly) =>
        \A i \in DOMAIN calls :
            /\ calls[i].c.kind \in {"fs", "client", "socket", "api"}
            /\ calls[i].c.kind = "api" => calls[i].c.m = "GET"
            /\ calls[i].c.kind = "fs" =>
                  calls[i].c.path \in {"exists /run/secrets/proxmox_password",
                                       "read /run/secrets/proxmox_password"}

C26_Witness ==
    /\ pc = "done" /\ tool = "proxmox_manage_backup" /\ args.action = "list"
    /\ \E i \in DOMAIN calls : calls[i].c = Api("GET", "storage/content") /\ calls[i].out = "ok"
    /\ resp = Resp("box", "Backups on storage")

----------------------------------------------------------------------------
DocumentTools == {"document_generate_word", "document_generate_excel",
                  "document_generate_powerpoint", "document_generate_pdf"}

\* Positions at which the invocation writes the output document.
OutputWrites == {i \in DOMAIN calls : calls[i].c = Fs("write output")}

(* C27: a document generation operation that returns an error response for  *)
(* a missing input, a template that is not found, invalid JSON, data of the *)
(* wrong shape, a non-object slide after valid slides or a library          *)
(* exception before saving has not written the output document; the output  *)
(* is written only as the last step, on the path that returns the success   *)
(* response, and the success response is returned only after that write     *)
(* succeeded.                                                               *)
C27_ErrorMeansNoOutputWritten ==
    (tool \in DocumentTools /\ pc = "done") =>
        /\ ~crashed
        /\ \A i \in OutputWrites : i = Len(calls)
        /\ resp.marker = OK <=> \E i \in OutputWrites : calls[i].out = "ok"
        /\ resp.marker # OK => resp.marker = ERR
        /\ (resp.marker = ERR /\ OutputWrites # {}) =>
              /\ resp = DocError
              /\ \A i \in DOMAIN calls : calls[i].out = "ok" <=> i < Len(calls)

C27_Witness ==
    /\ tool = "document_generate_powerpoint" /\ pc = "done"
    /\ args.slides = "mixed" /\ args.template = "t.pptx"
    /\ resp = Resp(ERR, "Each slide must be a JSON object")
    /\ \E i \in DOMAIN calls : calls[i] = Load("ok")
    /\ OutputWrites = {}

====
